---- MODULE Spec2Model ----
(***************************************************************************)
(* Order ingestion and review-request dispatch of the Kaspi / WhatsApp     *)
(* backend: the date-range splitter and processOrders of KaspiService, the *)
(* Order table, the two WhatsApp services and the dispatch loops of the    *)
(* NotificationScheduler and of retryFailedNotifications.                  *)
(***************************************************************************)
EXTENDS Integers, Sequences, FiniteSets, TLC

\* null of a text column, of a date and of an object
NULL == "null"
NullDate == 0 - 1
NullObject == [isNull |-> TRUE]

Min(a, b) == IF a < b THEN a ELSE b

(***************************************************************************)
(* Bounds of the model.                                                    *)
(***************************************************************************)
\* model time of the splitter is counted in ticks, TicksPerDay ticks a day
TicksPerDay == 2
\* latest start of a requested period, in ticks
MaxFrom == 3
\* latest end of a requested period, in days
MaxDays == 31
\* number of order ids of the marketplace
NumKaspiOrders == 3
\* most raw orders in one processOrders call
MaxBatch == 2
\* most rows of the orders table
MaxRows == 3
\* hour of the day at which the dispatch operations are observed
BootHour == 10
\* largest limit of a manual dispatch
MaxLimit == 3
\* messages per order beyond which the gateway stops counting
MaxSends == 2
\* dispatch operations and updateOrder calls in one behaviour
MaxOps == 2
MaxUpdates == 1

(***************************************************************************)
(* KaspiService: the date-range splitter.                                  *)
(***************************************************************************)
\* kaspiService.js:46
maxDaysPerRequest == 14

\* kaspiService.js:62, one day (24*60*60*1000 ms) expressed in ticks
oneDay == TicksPerDay

MaxTick == MaxDays * oneDay

Dates == 0..MaxTick

VARIABLES
  fromDate,     \* argument of splitDateRange (NullDate or a date)
  toDate,       \* argument of splitDateRange (NullDate or a date)
  dateRanges,   \* the array returned by splitDateRange
  splitPc       \* "idle" before the call, "done" after it

splitVars == <<fromDate, toDate, dateRanges, splitPc>>

\* a loop that also runs when currentFrom has reached finalTo
RECURSIVE SplitLoopInclusive(_, _, _)
SplitLoopInclusive(currentFrom, finalTo, result) ==
  IF currentFrom <= finalTo
  THEN LET limit     == currentFrom + (maxDaysPerRequest * oneDay)
           currentTo == IF limit > finalTo THEN finalTo ELSE limit
       IN  SplitLoopInclusive(currentTo + oneDay, finalTo,
                     Append(result, [fromDate |-> currentFrom, toDate |-> currentTo]))
  ELSE result

\* the while loop of splitDateRange (kaspiService.js:68-85), from the
\* iteration that starts with currentFrom and the result built so far
RECURSIVE SplitLoop(_, _, _)
SplitLoop(currentFrom, finalTo, result) ==
  IF currentFrom < finalTo
  THEN LET limit     == currentFrom + (maxDaysPerRequest * oneDay)
           currentTo == IF limit > finalTo THEN finalTo ELSE limit
       IN  SplitLoop(currentTo + oneDay, finalTo,
                     Append(result, [fromDate |-> currentFrom, toDate |-> currentTo]))
  ELSE result

splitDateRange(from, to) ==
  IF from = NullDate \/ to = NullDate
  THEN << >>
  ELSE SplitLoop(from, to, << >>)

InitSplit ==
  /\ fromDate = NullDate
  /\ toDate = NullDate
  /\ dateRanges = << >>
  /\ splitPc = "idle"

\* splitDateRange(from, to) is called and returns
SplitCall(from, to) ==
  /\ splitPc = "idle"
  /\ fromDate' = from
  /\ toDate' = to
  /\ dateRanges' = splitDateRange(from, to)
  /\ splitPc' = "done"

(***************************************************************************)
(* The marketplace: what the Kaspi API returns for an order id.            *)
(***************************************************************************)
KaspiIds == 1..NumKaspiOrders

ProductIds == {"A", "B"}

\* attributes.customer of an order of the marketplace; a cellPhone that is
\* missing or empty is << >>
KaspiCustomer(id) ==
  CASE id = 1 -> [cellPhone |-> <<"+", "7", "1">>]
    [] id = 2 -> [cellPhone |-> << >>]
    [] id = 3 -> [cellPhone |-> <<"7", " ", "2">>]
    [] OTHER  -> NullObject

\* an element of response.data.data of GET /api/v2/orders
KaspiOrder(id) ==
  [id |-> id,
   attributes |-> [customer |-> KaspiCustomer(id), creationDate |-> id]]

\* raw orders handed to processOrders: the marketplace's orders and two
\* records that lack the id (0) or the attributes
RawOrders ==
  {KaspiOrder(id) : id \in KaspiIds}
    \cup {[id |-> 0, attributes |-> KaspiOrder(1).attributes],
          [id |-> 1, attributes |-> NullObject]}

Entry(eid, pid) ==
  [id |-> eid, relationships |-> [product |-> [data |-> [id |-> pid]]]]

\* response.data.data of GET /api/v2/orders/{id}/entries
KaspiEntries(id) ==
  CASE id = 1 -> <<Entry(1, "A"), [id |-> 2, relationships |-> NullObject], Entry(3, "B")>>
    [] id = 2 -> <<[id |-> 1, relationships |-> [product |-> [data |-> NullObject]]]>>
    [] id = 3 -> <<Entry(1, "B")>>
    [] OTHER  -> <<Entry(1, "A")>>

\* response.data.data of GET /api/v2/masterproducts/{id}
KaspiProduct(pid) ==
  [attributes |-> [name |-> pid, code |-> IF pid = "A" THEN "cA" ELSE "cB"]]

(***************************************************************************)
(* The orders table (models/Order.js) and processOrders.                   *)
(***************************************************************************)
VARIABLES
  orders,       \* the rows of table orders; the primary key is the position
  ing           \* per ingestion run: position in processOrders

ingVars == <<orders, ing>>

\* checkNewOrders of the scheduler and fetchOrders of the controller
IngRuns == {"cron", "api"}

\* Order.findOne({where: {kaspiOrderId}}): is there such a row
OrderExists(store, kaspiOrderId) ==
  \E k \in 1..Len(store) : store[k].kaspiOrderId = kaspiOrderId

\* getOrderEntries: the entries, or [] when the request failed
getOrderEntries(orderId, requestOk) ==
  IF requestOk THEN KaspiEntries(orderId) ELSE << >>

\* getProductDetails: the product, or null when the request failed
getProductDetails(productId, found) ==
  IF productId \in found THEN KaspiProduct(productId) ELSE NullObject

\* the item of an entry whose product was resolved
OrderItem(entry, productDetails) ==
  [entryId   |-> entry.id,
   productId |-> entry.relationships.product.data.id,
   name      |-> productDetails.attributes.name,
   code      |-> productDetails.attributes.code]

\* the loop leaving at the first entry it cannot use
RECURSIVE PrepareOrderItemsBreak(_, _, _)
PrepareOrderItemsBreak(orderEntries, found, orderItems) ==
  IF orderEntries = << >>
  THEN orderItems
  ELSE LET entry == Head(orderEntries)
       IN  IF \/ entry.relationships = NullObject
              \/ entry.relationships.product = NullObject
              \/ entry.relationships.product.data = NullObject
           THEN orderItems
           ELSE LET productDetails ==
                      getProductDetails(entry.relationships.product.data.id, found)
                IN  IF productDetails = NullObject
                    THEN orderItems
                    ELSE PrepareOrderItemsBreak(Tail(orderEntries), found,
                           Append(orderItems, OrderItem(entry, productDetails)))

\* the loop over orderEntries of processOrders (kaspiService.js:233-266);
\* found: the products whose request succeeds
RECURSIVE PrepareOrderItems(_, _, _)
PrepareOrderItems(orderEntries, found, orderItems) ==
  IF orderEntries = << >>
  THEN orderItems
  ELSE LET entry == Head(orderEntries)
           rest  == Tail(orderEntries)
       IN  IF entry.relationships = NullObject \/ entry.relationships.product = NullObject
           THEN PrepareOrderItems(rest, found, orderItems)
           ELSE IF entry.relationships.product.data = NullObject
           THEN PrepareOrderItems(rest, found, orderItems)
           ELSE LET productId      == entry.relationships.product.data.id
                    productDetails == getProductDetails(productId, found)
                IN  IF productDetails = NullObject
                    THEN PrepareOrderItems(rest, found, orderItems)
                    ELSE PrepareOrderItems(rest, found,
                           Append(orderItems, OrderItem(entry, productDetails)))

\* customer.cellPhone || ''
CellPhoneOrEmpty(customer) == customer.cellPhone

\* an orderData that marks the new order as already notified
OrderDataNotified(kaspiOrder, orderItems) ==
  [kaspiOrderId       |-> kaspiOrder.id,
   orderDate          |-> kaspiOrder.attributes.creationDate,
   customerPhone      |-> CellPhoneOrEmpty(kaspiOrder.attributes.customer),
   orderStatus        |-> "completed",
   orderItems         |-> orderItems,
   notificationStatus |-> "sent",
   notificationSentAt |-> NullDate,
   notificationError  |-> NULL]

\* orderData of processOrders (kaspiService.js:278-289) with the defaults of
\* the Order model for the two columns it leaves out
OrderData(kaspiOrder, orderItems) ==
  [kaspiOrderId       |-> kaspiOrder.id,
   orderDate          |-> kaspiOrder.attributes.creationDate,
   customerPhone      |-> CellPhoneOrEmpty(kaspiOrder.attributes.customer),
   orderStatus        |-> "completed",
   orderItems         |-> orderItems,
   notificationStatus |-> "pending",
   notificationSentAt |-> NullDate,
   notificationError  |-> NULL]

\* a table without the unique index
UniqueViolationNever(store, data) == FALSE

\* the unique index on kaspiOrderId (models/Order.js:43-47)
UniqueViolation(store, data) == OrderExists(store, data.kaspiOrderId)

\* one iteration of the loop of processOrders up to the insert
\* (kaspiService.js:203-289): NullObject when the order is skipped, else
\* orderData
PrepareOrder(store, kaspiOrder, findOk, entriesOk, found) ==
  IF kaspiOrder.id = 0 \/ kaspiOrder.attributes = NullObject
  THEN NullObject
  ELSE IF ~findOk
  THEN NullObject
  ELSE IF OrderExists(store, kaspiOrder.id)
  THEN NullObject
  ELSE LET orderItems == PrepareOrderItems(getOrderEntries(kaspiOrder.id, entriesOk),
                                           found, << >>)
       IN  IF kaspiOrder.attributes.customer = NullObject
           THEN NullObject
           ELSE OrderData(kaspiOrder, orderItems)

\* a run that is not inside processOrders.  data: orderData of the current
\* iteration; entriesOk, found: the answers of the marketplace it was built
\* from; saved: savedOrders.length; errorLogged: the latest Order.create of
\* the run ended in the logger.error of its catch block
IdleIng ==
  [pc |-> "idle", left |-> 0, data |-> NullObject, entriesOk |-> FALSE,
   found |-> {}, saved |-> 0, errorLogged |-> FALSE]

InitIngest ==
  /\ orders = << >>
  /\ ing = [r \in IngRuns |-> IdleIng]

\* processOrders is called with an array of n raw orders
ProcessOrdersStart(r, n) ==
  /\ ing[r].pc = "idle"
  /\ ing' = [ing EXCEPT ![r] = [IdleIng EXCEPT !.pc = "loop", !.left = n]]
  /\ UNCHANGED orders

\* the loop takes the next raw order: validation, findOne, entries, products
ProcessOrdersCheck(r, kaspiOrder, findOk, entriesOk, found) ==
  /\ ing[r].pc = "loop"
  /\ ing[r].left > 0
  /\ LET data == PrepareOrder(orders, kaspiOrder, findOk, entriesOk, found)
     IN  ing' = [ing EXCEPT ![r] =
                   IF data = NullObject
                   THEN [IdleIng EXCEPT !.pc = "loop", !.left = ing[r].left - 1,
                                        !.saved = ing[r].saved]
                   ELSE [@ EXCEPT !.pc = "create", !.data = data,
                                  !.entriesOk = entriesOk, !.found = found,
                                  !.errorLogged = FALSE]]
  /\ UNCHANGED orders

\* an insert that overwrites the row of an external id already stored
ProcessOrdersUpsert(r, dbOk) ==
  /\ ing[r].pc = "create"
  /\ Len(orders) < MaxRows
  /\ LET created == dbOk /\ ~UniqueViolation(orders, ing[r].data)
     IN  /\ orders' = IF created THEN Append(orders, ing[r].data)
                      ELSE [k \in 1..Len(orders) |->
                              IF orders[k].kaspiOrderId = ing[r].data.kaspiOrderId
                              THEN ing[r].data ELSE orders[k]]
         /\ ing' = [ing EXCEPT ![r] =
                      [IdleIng EXCEPT !.pc = "loop", !.left = ing[r].left - 1,
                                      !.saved = IF created THEN ing[r].saved + 1
                                                ELSE ing[r].saved,
                                      !.errorLogged = ~created]]

\* an insert whose order is counted as saved before Order.create answers
ProcessOrdersCountAttempt(r, dbOk) ==
  /\ ing[r].pc = "create"
  /\ Len(orders) < MaxRows
  /\ LET created == dbOk /\ ~UniqueViolation(orders, ing[r].data)
     IN  /\ orders' = IF created THEN Append(orders, ing[r].data) ELSE orders
         /\ ing' = [ing EXCEPT ![r] =
                      [IdleIng EXCEPT !.pc = "loop", !.left = ing[r].left - 1,
                                      !.saved = ing[r].saved + 1,
                                      !.errorLogged = ~created]]

\* Order.create(orderData) and its catch (kaspiService.js:291-300)
ProcessOrdersCreate(r, dbOk) ==
  /\ ing[r].pc = "create"
  /\ Len(orders) < MaxRows
  /\ LET created == dbOk /\ ~UniqueViolation(orders, ing[r].data)
     IN  /\ orders' = IF created THEN Append(orders, ing[r].data) ELSE orders
         /\ ing' = [ing EXCEPT ![r] =
                      [IdleIng EXCEPT !.pc = "loop", !.left = ing[r].left - 1,
                                      !.saved = IF created THEN ing[r].saved + 1
                                                ELSE ing[r].saved,
                                      !.errorLogged = ~created]]

\* the loop is over: processOrders returns savedOrders
ProcessOrdersReturn(r) ==
  /\ ing[r].pc = "loop"
  /\ ing[r].left = 0
  /\ ing' = [ing EXCEPT ![r] = [IdleIng EXCEPT !.saved = ing[r].saved]]
  /\ UNCHANGED orders

(***************************************************************************)
(* The allow-list, the two WhatsApp services and the gateway.              *)
(***************************************************************************)
VARIABLES
  allowedPhones,       \* the rows of table allowed_phones
  isWhatsAppVerified,  \* WhatsAppService.isWhatsAppVerified
  isInitialized,       \* WhatsAppCloudService.isInitialized
  gateway,             \* per external order id: messages the gateway accepted
  now,                 \* the clock, in hours
  startHour,           \* NotificationScheduler.startHour
  endHour,             \* NotificationScheduler.endHour
  disp,                \* per dispatch operation: position in its loop
  opsStarted,          \* dispatch operations started so far
  updatesDone          \* updateOrder calls so far

dispVars == <<allowedPhones, isWhatsAppVerified, isInitialized, gateway, now,
              startHour, endHour, disp, opsStarted, updatesDone>>

\* invocations of sendReviewRequests by the cron callback: one tick and the
\* tick after it
SchedRuns == {"sched", "sched2"}

\* sendReviewRequests (cron), manualSendReviewRequests and
\* retryFailedNotifications
DispRuns == SchedRuns \cup {"manual", "retry"}

\* phone numbers as typed into the allow-list
PhoneInputs == {<<"+", "7", "1">>}

Digits == {"0", "1", "2", "7"}

\* phoneNumber.replace(/\D/g, '')
NormalizePhone(phoneNumber) == SelectSeq(phoneNumber, LAMBDA c : c \in Digits)

\* a check that lets the phone pass when the query fails
isPhoneAllowedFailOpen(table, phoneNumber, lookupOk) ==
  \/ ~lookupOk
  \/ \E rec \in table :
       rec.phoneNumber = NormalizePhone(phoneNumber) /\ rec.isActive

\* AllowedPhone.findOne({where: {phoneNumber: normalizedPhone, isActive: true}})
\* of isPhoneAllowed; lookupOk: the query did not fail
isPhoneAllowed(table, phoneNumber, lookupOk) ==
  /\ lookupOk
  /\ \E rec \in table :
       rec.phoneNumber = NormalizePhone(phoneNumber) /\ rec.isActive

\* config.whatsapp.type (config.js:20)
whatsappType == "cloud"

\* limit of the scheduled batch (notificationScheduler.js:73) and of
\* retryFailedNotifications (notificationController.js:166)
schedLimit == 20
retryLimit == 20

\* WhatsAppService.sendReviewRequest and the sendMessage it calls
\* (whatsappService.js:55-124): whether it returned, the message of the error
\* it threw, and the number of messages it handed to the gateway
LegacySendReviewRequest(order, verified) ==
  IF Len(order.orderItems) = 0
  THEN [ok |-> FALSE, error |-> "NoItems", posted |-> 0, accepted |-> 0]
  ELSE IF ~verified
  THEN [ok |-> FALSE, error |-> "NotVerified", posted |-> 0, accepted |-> 0]
  ELSE [ok |-> TRUE, error |-> NULL, posted |-> 1, accepted |-> 1]

\* sendTemplateMessage and sendTextMessage (whatsappCloudService.js:147-271)
\* have the same steps: initialisation, allow-list, POST to the gateway.
\* initialized: isInitialized after the initialisation step
CloudSendMessage(initialized, allowed, postOk) ==
  IF ~initialized
  THEN [ok |-> FALSE, error |-> "NotInitialized", posted |-> 0]
  ELSE IF ~allowed
  THEN [ok |-> FALSE, error |-> "NotAllowed", posted |-> 0]
  ELSE IF ~postOk
  THEN [ok |-> FALSE, error |-> "ApiError", posted |-> 1]
  ELSE [ok |-> TRUE, error |-> NULL, posted |-> 1]

\* sendTemplateMessage as called by sendReviewRequest
\* (whatsappCloudService.js:337-341)
CloudTemplateSend(order, initialized, table, env) ==
  CloudSendMessage(initialized \/ env.initOk1,
                   isPhoneAllowed(table, order.customerPhone, env.lookupOk1),
                   env.templateOk)

\* sendTextMessage as called in the catch block of sendReviewRequest
\* (whatsappCloudService.js:346-347)
CloudTextSend(order, initialized, table, env) ==
  CloudSendMessage(initialized \/ env.initOk1 \/ env.initOk2,
                   isPhoneAllowed(table, order.customerPhone, env.lookupOk2),
                   env.textOk)

\* a sendReviewRequest that gives up when the template send failed
CloudSendReviewRequestNoFallback(order, initialized, table, env) ==
  IF Len(order.orderItems) = 0
  THEN [ok |-> FALSE, error |-> "NoItems", posted |-> 0, accepted |-> 0,
        initialized |-> initialized]
  ELSE LET init1 == initialized \/ env.initOk1
           tpl   == CloudTemplateSend(order, initialized, table, env)
       IN  [ok |-> tpl.ok, error |-> tpl.error, posted |-> tpl.posted,
            accepted |-> IF tpl.ok THEN 1 ELSE 0, initialized |-> init1]

\* WhatsAppCloudService.sendReviewRequest (whatsappCloudService.js:317-355):
\* the template first, the text message when the template failed.
\* env: the answers of the outside world during the call
CloudSendReviewRequest(order, initialized, table, env) ==
  IF Len(order.orderItems) = 0
  THEN [ok |-> FALSE, error |-> "NoItems", posted |-> 0, accepted |-> 0,
        initialized |-> initialized]
  ELSE LET init1 == initialized \/ env.initOk1
           tpl   == CloudTemplateSend(order, initialized, table, env)
           init2 == init1 \/ env.initOk2
           txt   == CloudTextSend(order, initialized, table, env)
       IN  IF tpl.ok
           THEN [ok |-> TRUE, error |-> NULL, posted |-> 1, accepted |-> 1,
                 initialized |-> init1]
           ELSE [ok |-> txt.ok, error |-> txt.error,
                 posted |-> tpl.posted + txt.posted,
                 accepted |-> IF txt.ok THEN 1 ELSE 0,
                 initialized |-> init2]

CloudEnvs ==
  [initOk1 : BOOLEAN, initOk2 : BOOLEAN, lookupOk1 : BOOLEAN,
   lookupOk2 : BOOLEAN, templateOk : BOOLEAN, textOk : BOOLEAN]

(***************************************************************************)
(* Selection of the orders of a batch.                                     *)
(***************************************************************************)
\* primary keys of the rows that satisfy the where clause of
\* getOrdersForReviewNotification (kaspiService.js:417-420)
PendingKeys(store) ==
  {k \in 1..Len(store) : /\ store[k].orderStatus = "completed"
                         /\ store[k].notificationStatus = "pending"}

\* the keys in the order of the primary key, as without an order clause
RECURSIVE SortByPrimaryKey(_, _)
SortByPrimaryKey(store, keys) ==
  IF keys = {}
  THEN << >>
  ELSE LET first == CHOOSE k \in keys : \A j \in keys : k <= j
       IN  <<first>> \o SortByPrimaryKey(store, keys \ {first})

\* the keys in ascending orderDate (ties by primary key): the key at
\* position i is the one that i - 1 keys precede
SortByOrderDate(store, keys) ==
  [i \in 1..Cardinality(keys) |->
     CHOOSE k \in keys :
       Cardinality({j \in keys :
                      \/ store[j].orderDate < store[k].orderDate
                      \/ store[j].orderDate = store[k].orderDate /\ j < k}) = i - 1]

\* getOrdersForReviewNotification(limit): [] when the query failed
getOrdersForReviewNotification(store, limit, queryOk) ==
  IF ~queryOk
  THEN << >>
  ELSE LET lim    == IF limit <= 0 THEN 50 ELSE limit
           sorted == SortByOrderDate(store, PendingKeys(store))
       IN  SubSeq(sorted, 1, Min(lim, Len(sorted)))

\* Order.findAll({where: {notificationStatus: 'failed'}, limit: 20}) of
\* retryFailedNotifications, in primary-key order
KeysAscending(keys) ==
  [i \in 1..Cardinality(keys) |->
     CHOOSE k \in keys : Cardinality({j \in keys : j < k}) = i - 1]

FailedOrders(store) ==
  LET sorted == KeysAscending({k \in 1..Len(store) :
                                 store[k].notificationStatus = "failed"})
  IN  SubSeq(sorted, 1, Min(retryLimit, Len(sorted)))

(***************************************************************************)
(* The dispatch loops.                                                     *)
(***************************************************************************)
\* an operation that is not running.  selected: primary keys of the orders
\* of the batch; i: orders already handled; results: the array returned to
\* the caller; outcome, posted: how the latest iteration ended and how many
\* requests it sent to the gateway; paused: the latest iteration ended with
\* the pause between sends
IdleDisp ==
  [pc |-> "idle", selected |-> << >>, i |-> 0, results |-> << >>,
   outcome |-> "none", posted |-> 0, paused |-> FALSE]

Active == {r \in DispRuns : disp[r].pc # "idle"}

\* a start that waits until no dispatch operation is running
CanStartExclusive(r) ==
  /\ Active = {}
  /\ opsStarted < MaxOps

CanStart(r) ==
  /\ disp[r].pc = "idle"
  /\ opsStarted < MaxOps

\* A backlog: one order more than a scheduled batch and a retry select
\* (notificationScheduler.js:73, notificationController.js:166)
BacklogSize == schedLimit + 1

\* external ids of the orders of the backlog
BacklogIds == {100 + n : n \in 1..BacklogSize}

\* the n-th order of the backlog as the marketplace returns it
BacklogOrder(n) ==
  [id |-> 100 + n,
   attributes |-> [customer |-> [cellPhone |-> <<"7", "1">>], creationDate |-> n]]

InitDispatch ==
  /\ allowedPhones = {}
  /\ isWhatsAppVerified = FALSE
  /\ isInitialized = FALSE
  /\ gateway = [id \in KaspiIds \cup BacklogIds |-> 0]
  /\ now = BootHour
  /\ startHour = 9
  /\ endHour = 21
  /\ disp = [r \in DispRuns |-> IdleDisp]
  /\ opsStarted = 0
  /\ updatesDone = 0

\* the hour of the day of new Date()
CurrentHour == now % 24

\* a scheduler that sends at any hour
InWindowAlways(hour, start, end) == TRUE

\* the negation of the condition under which sendReviewRequests returns at
\* once (notificationScheduler.js:65)
InWindow(hour, start, end) == ~(hour < start \/ hour >= end)

\* sendReviewRequests up to the loop (notificationScheduler.js:59-82): the
\* check of the hour and the query
SendReviewRequestsBegin(r, queryOk) ==
  /\ r \in SchedRuns
  /\ disp[r].pc = "idle"
  /\ LET inWindow == InWindow(CurrentHour, startHour, endHour)
         selected == IF inWindow
                     THEN getOrdersForReviewNotification(orders, schedLimit, queryOk)
                     ELSE << >>
     IN  disp' = [disp EXCEPT ![r] =
                    IF ~inWindow
                    THEN [IdleDisp EXCEPT !.outcome = "outside"]
                    ELSE IF Len(selected) = 0
                    THEN IdleDisp
                    ELSE [IdleDisp EXCEPT !.pc = "loop", !.selected = selected]]

\* a cron tick of sendReviewRequests, counted
SendReviewRequestsStart(r, queryOk) ==
  /\ CanStart(r)
  /\ SendReviewRequestsBegin(r, queryOk)
  /\ opsStarted' = opsStarted + 1
  /\ UNCHANGED <<orders, allowedPhones, isWhatsAppVerified, isInitialized,
                 gateway, now, startHour, endHour, updatesDone>>

\* manualSendReviewRequests(limit) up to the loop
\* (notificationScheduler.js:134-147)
ManualSendReviewRequestsStart(limit, queryOk) ==
  /\ CanStart("manual")
  /\ LET selected == getOrdersForReviewNotification(orders, limit, queryOk)
     IN  disp' = [disp EXCEPT !["manual"] =
                    IF Len(selected) = 0
                    THEN IdleDisp
                    ELSE [IdleDisp EXCEPT !.pc = "loop", !.selected = selected]]
  /\ opsStarted' = opsStarted + 1
  /\ UNCHANGED <<orders, allowedPhones, isWhatsAppVerified, isInitialized,
                 gateway, now, startHour, endHour, updatesDone>>

\* retryFailedNotifications up to the loop (notificationController.js:161-178)
RetryFailedBegin(queryOk) ==
  /\ disp["retry"].pc = "idle"
  /\ LET selected == IF queryOk THEN FailedOrders(orders) ELSE << >>
     IN  disp' = [disp EXCEPT !["retry"] =
                    IF ~queryOk
                    THEN [IdleDisp EXCEPT !.pc = "threw"]
                    ELSE IF Len(selected) = 0
                    THEN IdleDisp
                    ELSE [IdleDisp EXCEPT !.pc = "loop", !.selected = selected]]

\* a retryFailedNotifications request, counted
RetryFailedStart(queryOk) ==
  /\ CanStart("retry")
  /\ RetryFailedBegin(queryOk)
  /\ opsStarted' = opsStarted + 1
  /\ UNCHANGED <<orders, allowedPhones, isWhatsAppVerified, isInitialized,
                 gateway, now, startHour, endHour, updatesDone>>

\* order.update({notificationStatus: 'sent', notificationSentAt: new Date()})
\* of sendReviewRequests (notificationScheduler.js:89-92)
MarkSent(row, time) ==
  [row EXCEPT !.notificationStatus = "sent", !.notificationSentAt = time]

\* a catch block that stores the message and leaves the order pending
MarkFailedKeepingStatus(row, message) ==
  [row EXCEPT !.notificationError = message]

\* order.update({notificationStatus: 'failed', notificationError: message})
\* of sendReviewRequests (notificationScheduler.js:100-103)
MarkFailed(row, message) ==
  [row EXCEPT !.notificationStatus = "failed", !.notificationError = message]

\* the update of manualSendReviewRequests after a send that returned
\* (notificationScheduler.js:155-158)
ManualMarkSent(row, time) ==
  [row EXCEPT !.notificationStatus = "sent", !.notificationSentAt = time]

\* a catch block that stores the message and leaves the status
ManualMarkFailedKeepingStatus(row, message) ==
  [row EXCEPT !.notificationError = message]

\* the update in the catch block of manualSendReviewRequests
\* (notificationScheduler.js:169-172)
ManualMarkFailed(row, message) ==
  [row EXCEPT !.notificationStatus = "failed", !.notificationError = message]

\* the update after a successful retry (notificationController.js:190-194)
RetryMarkSent(row, time) ==
  [row EXCEPT !.notificationStatus = "sent", !.notificationSentAt = time,
              !.notificationError = NULL]

\* the update after a failed retry (notificationController.js:203-205)
RetryMarkFailed(row, message) ==
  [row EXCEPT !.notificationError = message]

\* the result entry pushed for an order
ResultEntry(row, status) == [orderId |-> row.kaspiOrderId, status |-> status]

\* the gateway after it accepted n more messages for an order
Accept(g, kaspiOrderId, n) ==
  [g EXCEPT ![kaspiOrderId] = Min(@ + n, MaxSends)]

\* how the two updates of an iteration can go: the update of the try block
\* succeeds ("ok"), it fails and the update of the catch block succeeds
\* ("catch"), or both fail ("none")
DbOutcomes == {"ok", "catch", "none"}

\* error.message in the catch block: the error of the send, or the error of
\* the update that followed a send that returned
ErrorMessage(send) == IF send.ok THEN "DbError" ELSE send.error

\* the iteration ends with the 2 s pause: only the try block of
\* sendReviewRequests has one, after its update (notificationScheduler.js:96-97)
Pauses(r, outcome) == r \in SchedRuns /\ outcome = "success"

\* One iteration of a dispatch loop: send, then the update in the try block,
\* or the update in the catch block.  send: what sendReviewRequest did;
\* sentRow, failedRow: the row after each of the two updates; db: how the
\* updates go
Iteration(r, send, sentRow, failedRow, db) ==
  LET key     == disp[r].selected[disp[r].i + 1]
      row     == orders[key]
      success == send.ok /\ db = "ok"
      outcome == IF success THEN "success"
                 ELSE IF db = "none" THEN "threw" ELSE "failed"
  IN  /\ gateway' = Accept(gateway, row.kaspiOrderId, send.accepted)
      /\ orders' = [orders EXCEPT ![key] =
                      CASE outcome = "success" -> sentRow
                        [] outcome = "failed"  -> failedRow
                        [] OTHER               -> row]
      /\ disp' = [disp EXCEPT ![r] =
                    [@ EXCEPT !.i = @ + 1,
                              !.outcome = outcome,
                              !.posted = send.posted,
                              !.paused = Pauses(r, outcome),
                              !.pc = IF outcome = "threw" THEN "threw" ELSE "loop",
                              !.results =
                                 IF outcome = "threw" \/ r \in SchedRuns
                                 THEN @
                                 ELSE Append(@, ResultEntry(row, outcome))]]

\* the body of the for loops of sendReviewRequests and
\* manualSendReviewRequests (notificationScheduler.js:83-107 and 149-182)
SchedulerIteration(r, db) ==
  /\ r \in SchedRuns \cup {"manual"}
  /\ disp[r].pc = "loop"
  /\ disp[r].i < Len(disp[r].selected)
  /\ LET order == orders[disp[r].selected[disp[r].i + 1]]
         send  == LegacySendReviewRequest(order, isWhatsAppVerified)
     IN  IF r \in SchedRuns
         THEN Iteration(r, send, MarkSent(order, now),
                        MarkFailed(order, ErrorMessage(send)), db)
         ELSE Iteration(r, send, ManualMarkSent(order, now),
                        ManualMarkFailed(order, ErrorMessage(send)), db)
  /\ UNCHANGED <<allowedPhones, isWhatsAppVerified, isInitialized, now,
                 startHour, endHour, opsStarted, updatesDone>>

\* what sendReviewRequest of the configured service can do for an order
RetrySends(order) ==
  IF whatsappType = "cloud"
  THEN {CloudSendReviewRequest(order, isInitialized, allowedPhones, env) :
          env \in CloudEnvs}
  ELSE {LegacySendReviewRequest(order, isWhatsAppVerified)
          @@ [initialized |-> isInitialized]}

\* the body of the for loop of retryFailedNotifications
\* (notificationController.js:180-213)
RetryIteration(db) ==
  /\ disp["retry"].pc = "loop"
  /\ disp["retry"].i < Len(disp["retry"].selected)
  /\ LET order == orders[disp["retry"].selected[disp["retry"].i + 1]]
     IN  \E send \in RetrySends(order) :
           /\ Iteration("retry", send, RetryMarkSent(order, now),
                        RetryMarkFailed(order, ErrorMessage(send)), db)
           /\ isInitialized' = send.initialized
  /\ UNCHANGED <<allowedPhones, isWhatsAppVerified, now, startHour, endHour,
                 opsStarted, updatesDone>>

\* the loop is over and the operation returns its results, or the error
\* that left the loop has reached the caller
DispatchReturn(r) ==
  /\ \/ disp[r].pc = "loop" /\ disp[r].i = Len(disp[r].selected)
     \/ disp[r].pc = "threw"
  /\ disp' = [disp EXCEPT ![r] = IdleDisp]
  /\ UNCHANGED <<orders, allowedPhones, isWhatsAppVerified, isInitialized,
                 gateway, now, startHour, endHour, opsStarted, updatesDone>>

(***************************************************************************)
(* The other operations that dispatch depends on.                          *)
(***************************************************************************)
\* verifyWhatsAppRegistration (whatsappService.js:168-185)
VerifyWhatsApp ==
  /\ ~isWhatsAppVerified
  /\ isWhatsAppVerified' = TRUE
  /\ UNCHANGED <<orders, allowedPhones, isInitialized, gateway, now,
                 startHour, endHour, disp, opsStarted, updatesDone>>

\* addAllowedPhone of the controller (whatsappController.js:71-105)
AddAllowedPhone(phoneNumber) ==
  /\ phoneNumber # << >>
  /\ ~\E rec \in allowedPhones : rec.phoneNumber = NormalizePhone(phoneNumber)
  /\ allowedPhones' = allowedPhones \cup
       {[phoneNumber |-> NormalizePhone(phoneNumber), isActive |-> TRUE]}
  /\ UNCHANGED <<orders, isWhatsAppVerified, isInitialized, gateway, now,
                 startHour, endHour, disp, opsStarted, updatesDone>>

\* updateAllowedPhone with isActive (whatsappController.js:127-162)
UpdateAllowedPhone(rec, isActive) ==
  /\ rec \in allowedPhones
  /\ rec.isActive # isActive
  /\ allowedPhones' = (allowedPhones \ {rec}) \cup {[rec EXCEPT !.isActive = isActive]}
  /\ UNCHANGED <<orders, isWhatsAppVerified, isInitialized, gateway, now,
                 startHour, endHour, disp, opsStarted, updatesDone>>

\* deleteAllowedPhone (whatsappController.js:167-187)
DeleteAllowedPhone(rec) ==
  /\ rec \in allowedPhones
  /\ allowedPhones' = allowedPhones \ {rec}
  /\ UNCHANGED <<orders, isWhatsAppVerified, isInitialized, gateway, now,
                 startHour, endHour, disp, opsStarted, updatesDone>>

\* updateOrder of the order controller (whatsappController.js:263-290)
UpdateOrder(key, orderStatus, notificationStatus) ==
  /\ key \in 1..Len(orders)
  /\ orders' = [orders EXCEPT ![key] =
       [@ EXCEPT !.orderStatus = IF orderStatus = NULL THEN @ ELSE orderStatus,
                 !.notificationStatus =
                    IF notificationStatus = NULL THEN @ ELSE notificationStatus]]
  /\ orders' # orders
  /\ updatesDone < MaxUpdates
  /\ updatesDone' = updatesDone + 1
  /\ UNCHANGED <<allowedPhones, isWhatsAppVerified, isInitialized, gateway, now,
                 startHour, endHour, disp, opsStarted>>

\* processOrders on one raw order, run from start to end with no other
\* operation in between and no failing request
ProcessOneOrder(kaspiOrder) ==
  /\ Len(orders) < MaxRows
  /\ LET data == PrepareOrder(orders, kaspiOrder, TRUE, TRUE, ProductIds)
     IN  /\ data # NullObject
         /\ ~UniqueViolation(orders, data)
         /\ orders' = Append(orders, data)
  /\ UNCHANGED dispVars

\* processOrders stores the next order of the backlog, run from start to
\* end with no other operation in between and no failing request
ProcessBacklogOrder ==
  /\ Len(orders) < BacklogSize
  /\ LET data == PrepareOrder(orders, BacklogOrder(Len(orders) + 1), TRUE, TRUE,
                              ProductIds)
     IN  /\ data # NullObject
         /\ ~UniqueViolation(orders, data)
         /\ orders' = Append(orders, data)
  /\ UNCHANGED dispVars

\* processOrders stores the whole backlog in one run over an empty table,
\* with no other operation in between and no failing request
ProcessBacklog ==
  /\ orders = << >>
  /\ orders' = [n \in 1..BacklogSize |->
                  PrepareOrder(orders, BacklogOrder(n), TRUE, TRUE, ProductIds)]
  /\ UNCHANGED dispVars

\* the cron callback calls sendReviewRequests (notificationScheduler.js:25-27)
CronTick(queryOk) ==
  /\ SendReviewRequestsBegin("sched", queryOk)
  /\ UNCHANGED <<orders, allowedPhones, isWhatsAppVerified, isInitialized,
                 gateway, now, startHour, endHour, opsStarted, updatesDone>>

\* a POST /api/notifications/retry-failed request, one of a series that has
\* no end (notificationController.js:161-178)
RetryFailedCall(queryOk) ==
  /\ RetryFailedBegin(queryOk)
  /\ UNCHANGED <<orders, allowedPhones, isWhatsAppVerified, isInitialized,
                 gateway, now, startHour, endHour, opsStarted, updatesDone>>

(***************************************************************************)
(* The dispatch window: PUT /api/notifications/time-window.                *)
(***************************************************************************)
VARIABLES
  timeWindowCall  \* <<startHour, endHour>> of the latest setTimeWindow
                  \* request, << >> before the first

winVars == <<timeWindowCall>>

InitWindow == timeWindowCall = << >>

\* hours sent in the body of the request
HourInputs == {0 - 1, 0, 1, 9, 20, 21, 22, 23, 24}

\* the checks of the controller before it calls the scheduler
\* (notificationController.js:106-113)
ControllerAccepts(parsedStartHour, parsedEndHour) ==
  /\ ~(\/ parsedStartHour < 0 \/ parsedStartHour > 23
       \/ parsedEndHour < 0 \/ parsedEndHour > 23)
  /\ ~(parsedStartHour >= parsedEndHour)

\* a scheduler that assigns whatever hours it is given
TimeWindowValidAlways(start, end) == TRUE

\* the condition of NotificationScheduler.setTimeWindow
\* (notificationScheduler.js:121)
TimeWindowValid(start, end) ==
  start >= 0 /\ start <= 23 /\ end >= 0 /\ end <= 23 /\ start < end

\* NotificationScheduler.setTimeWindow (notificationScheduler.js:120-128)
setTimeWindow(start, end) ==
  IF TimeWindowValid(start, end)
  THEN <<start, end>>
  ELSE <<startHour, endHour>>

\* PUT /api/notifications/time-window (notificationController.js:93-129),
\* or the scheduler's setTimeWindow called without the controller
SetTimeWindow(start, end, viaController) ==
  /\ timeWindowCall' = <<start, end>>
  /\ LET window == IF viaController /\ ~ControllerAccepts(start, end)
                   THEN <<startHour, endHour>>
                   ELSE setTimeWindow(start, end)
     IN  /\ startHour' = window[1]
         /\ endHour' = window[2]
  /\ UNCHANGED <<orders, allowedPhones, isWhatsAppVerified, isInitialized,
                 gateway, now, disp, opsStarted, updatesDone>>

(***************************************************************************)
(* KaspiService.fetchNewOrders.                                            *)
(***************************************************************************)
VARIABLES
  fetch   \* the latest fetchNewOrders call: its arguments, what the
          \* marketplace held and answered, and what the call returned

fetchVars == <<fetch>>

\* 'page[size]' of the request (kaspiService.js:142)
pageSize == 100

\* what the marketplace holds: one completed order created at every tick
\* ("sparse"), or in addition a tick with more orders than a page ("busy")
Markets == {"sparse", "busy"}

\* number of completed orders of the marketplace created at tick t
Created(market, t) == IF market = "busy" /\ t = 1 THEN pageSize + 1 ELSE 1

\* the completed orders created in [fromMs, toMs], oldest first; an order is
\* <<creation tick, number within the tick>>
RECURSIVE OrdersCreatedIn(_, _, _)
OrdersCreatedIn(market, fromMs, toMs) ==
  IF fromMs > toMs
  THEN << >>
  ELSE [k \in 1..Created(market, fromMs) |-> <<fromMs, k>>]
         \o OrdersCreatedIn(market, fromMs + 1, toMs)

\* response.data.data of GET /api/v2/orders for the filter of a window and
\* 'page[number]' = number
Page(market, range, number) ==
  LET all == OrdersCreatedIn(market, range.fromDate, range.toDate)
  IN  SubSeq(all, number * pageSize + 1, Min((number + 1) * pageSize, Len(all)))

\* how the request of a window ends: a response with data, a network error,
\* or a response whose data is not an array
Outcomes == {"ok", "error", "malformed"}

\* the try block of one window (kaspiService.js:148-169): the orders it adds
WindowOrders(market, range, outcome) ==
  IF outcome = "ok" THEN Page(market, range, 0) ELSE << >>

\* a loop that gives up at the first window whose request fails
RECURSIVE FetchLoopBreak(_, _, _, _)
FetchLoopBreak(market, ranges, outcomes, allOrders) ==
  IF ranges = << >>
  THEN allOrders
  ELSE IF Head(outcomes) = "error"
  THEN allOrders
  ELSE FetchLoopBreak(market, Tail(ranges), Tail(outcomes),
                      allOrders \o WindowOrders(market, Head(ranges), Head(outcomes)))

\* the loop over dateRanges (kaspiService.js:131-170)
RECURSIVE FetchLoop(_, _, _, _)
FetchLoop(market, ranges, outcomes, allOrders) ==
  IF ranges = << >>
  THEN allOrders
  ELSE FetchLoop(market, Tail(ranges), Tail(outcomes),
                 allOrders \o WindowOrders(market, Head(ranges), Head(outcomes)))

\* what the loop over dateRanges does in order: the request of each window
\* and, inside the same try block after a request that returned, the pause
\* when there is more than one window (kaspiService.js:148-169); count is
\* dateRanges.length
RECURSIVE FetchTrace(_, _)
FetchTrace(outcomes, count) ==
  IF outcomes = << >>
  THEN << >>
  ELSE <<"request">>
         \o (IF Head(outcomes) # "error" /\ count > 1 THEN <<"delay">> ELSE << >>)
         \o FetchTrace(Tail(outcomes), count)

\* the body of the outer try block (kaspiService.js:102-173): the error it
\* throws, or NULL and the orders it returns, and the number of requests it
\* sent to the marketplace (one per window, kaspiService.js:149)
FetchBody(from, to, market, outcomes) ==
  IF from = NullDate \/ to = NullDate
  THEN [error |-> "DatesRequired", orders |-> << >>, requests |-> 0,
        trace |-> << >>]
  ELSE LET ranges == splitDateRange(from, to)
       IN  IF Len(ranges) = 0
           THEN [error |-> "SplitFailed", orders |-> << >>, requests |-> 0,
                 trace |-> << >>]
           ELSE [error |-> NULL,
                 orders |-> FetchLoop(market, ranges, outcomes, << >>),
                 requests |-> Len(ranges),
                 trace |-> FetchTrace(outcomes, Len(ranges))]

\* fetchNewOrders (kaspiService.js:100-179): the outer catch returns []
fetchNewOrders(from, to, market, outcomes) ==
  LET body == FetchBody(from, to, market, outcomes)
  IN  IF body.error # NULL
      THEN [threw |-> FALSE, orders |-> << >>, requests |-> body.requests,
            trace |-> body.trace]
      ELSE [threw |-> FALSE, orders |-> body.orders, requests |-> body.requests,
            trace |-> body.trace]

IdleFetch ==
  [pc |-> "idle", from |-> NullDate, to |-> NullDate, market |-> "sparse",
   outcomes |-> << >>, threw |-> FALSE, orders |-> << >>, requests |-> 0,
   trace |-> << >>]

InitFetch == fetch = IdleFetch

\* fetchNewOrders(from, to) is called and returns; outcomes: how the request
\* of each window ends
FetchCall(from, to, market, outcomes) ==
  /\ fetch.pc = "idle"
  /\ LET result == fetchNewOrders(from, to, market, outcomes)
     IN  fetch' = [pc |-> "done", from |-> from, to |-> to, market |-> market,
                   outcomes |-> outcomes, threw |-> result.threw,
                   orders |-> result.orders, requests |-> result.requests,
                   trace |-> result.trace]

(***************************************************************************)
(* getDailyStats (notificationController.js:275-347).  Instants are whole  *)
(* hours since an epoch in UTC; a calendar day is a day number.            *)
(***************************************************************************)
VARIABLES stats

statsVars == <<stats>>

\* the number of days the loop fills (notificationController.js:295)
statsDays == 30

\* the hours the clock can advance while one request is served
MaxAdvance == 1

\* The time zone of the process: its offset from UTC in hours before and
\* from the instant of a change of offset.  UTC, a zone without daylight
\* saving time, and a zone that moves its clocks forward
Zones ==
  {[name |-> "UTC", before |-> 0, after |-> 0, transition |-> 0],
   [name |-> "Asia/Almaty", before |-> 5, after |-> 5, transition |-> 0],
   [name |-> "America/New_York", before |-> 0 - 5, after |-> 0 - 4,
    transition |-> 90 * 24 + 7]}

\* the offset of local time at instant t
Offset(zone, t) == IF t < zone.transition THEN zone.before ELSE zone.after

\* The instant of a local time: a local time that occurs twice, or never, is
\* read with the offset in force before the change
LocalToUtc(zone, local) ==
  IF local - zone.before < zone.transition
  THEN local - zone.before
  ELSE IF local - zone.after >= zone.transition
       THEN local - zone.after
       ELSE local - zone.before

\* date.setDate(date.getDate() - days): the same local time of day, days
\* local calendar days earlier
SetDateBack(zone, t, days) ==
  LocalToUtc(zone, (t + Offset(zone, t)) - 24 * days)

\* date.toISOString().split('T')[0]: the calendar day of the instant in UTC
ToISODate(t) == t \div 24

\* the entry a day starts with (notificationController.js:300-307)
ZeroEntry(dateString) ==
  [date |-> dateString, total |-> 0, sent |-> 0, delivered |-> 0,
   read |-> 0, failed |-> 0]

\* the rows of Order.findAll: notificationSentAt >= thirtyDaysAgo
\* (notificationController.js:282-289)
FindSince(rows, thirtyDaysAgo) ==
  SelectSeq(rows, LAMBDA row : /\ row.notificationSentAt # NullDate
                               /\ row.notificationSentAt >= thirtyDaysAgo)

\* how many of the rows fall on the day, with the status when one is given
CountOn(rows, dateString, status) ==
  Cardinality({n \in 1..Len(rows) :
                 /\ rows[n].notificationSentAt # NullDate
                 /\ ToISODate(rows[n].notificationSentAt) = dateString
                 /\ status \in {"any", rows[n].notificationStatus}})

\* notifications.forEach (notificationController.js:311-334): rows of days
\* that have no entry are skipped
Tally(dailyStats, rows) ==
  [dateString \in DOMAIN dailyStats |->
     [date      |-> dateString,
      total     |-> CountOn(rows, dateString, "any"),
      sent      |-> CountOn(rows, dateString, "sent"),
      delivered |-> CountOn(rows, dateString, "delivered"),
      read      |-> CountOn(rows, dateString, "read"),
      failed    |-> CountOn(rows, dateString, "failed")]]

\* Object.values(dailyStats).sort by date (notificationController.js:337-339)
RECURSIVE SortedStats(_, _)
SortedStats(dailyStats, dates) ==
  IF dates = {}
  THEN << >>
  ELSE LET first == CHOOSE d \in dates : \A e \in dates : d <= e
       IN  <<dailyStats[first]>> \o SortedStats(dailyStats, dates \ {first})

IdleStats ==
  [pc |-> "idle", zone |-> "UTC", clock |-> 0, advanced |-> 0, i |-> 0,
   notifications |-> << >>, dailyStats |-> << >>, data |-> << >>]

InitStats == stats = IdleStats

\* getDailyStats up to the loop: the clock is read and the orders are queried
\* (notificationController.js:277-292)
GetDailyStatsStart(zone, clock, rows) ==
  /\ stats.pc \in {"idle", "done"}
  /\ stats' = [IdleStats EXCEPT
                 !.pc = "fill", !.zone = zone.name, !.clock = clock,
                 !.notifications =
                    FindSince(rows, SetDateBack(zone, clock, statsDays))]

\* One iteration of the loop that fills the days
\* (notificationController.js:295-308).  new Date() reads the clock again,
\* which may have advanced
GetDailyStatsFill(advance) ==
  /\ stats.pc = "fill"
  /\ stats.i < statsDays
  /\ stats.advanced + advance <= MaxAdvance
  /\ LET zone       == CHOOSE z \in Zones : z.name = stats.zone
         date       == SetDateBack(zone, stats.clock + advance, stats.i)
         dateString == ToISODate(date)
     IN  stats' = [stats EXCEPT
                     !.clock = @ + advance,
                     !.advanced = @ + advance,
                     !.i = @ + 1,
                     !.dailyStats =
                        [d \in DOMAIN stats.dailyStats \cup {dateString} |->
                           ZeroEntry(d)]]

\* the rows are counted and the sorted entries returned
\* (notificationController.js:311-344)
GetDailyStatsReturn ==
  /\ stats.pc = "fill"
  /\ stats.i = statsDays
  /\ LET counted == Tally(stats.dailyStats, stats.notifications)
     IN  stats' = [stats EXCEPT
                     !.pc = "done",
                     !.data = SortedStats(counted, DOMAIN counted)]

(***************************************************************************)
(* The review link (kaspiService.js:444-461) and the places that build it. *)
(***************************************************************************)
VARIABLES link

linkVars == <<link>>

\* a code that is undefined or null is NULL; "" is the empty string
Absent(code) == code \in {NULL, ""}

\* encodeURIComponent for the codes of the model
EncodeURIComponent(code) ==
  CASE code = "c A"  -> "c%20A"
    [] code = "c&A"  -> "c%26A"
    [] OTHER         -> code

\* ${code} in a template literal
Interpolate(code) == IF code = NULL THEN "undefined" ELSE code

\* kaspiOrderId.split('-')[0] || kaspiOrderId
OrderCode(kaspiOrderId) ==
  LET first == CASE kaspiOrderId = "77-1" -> "77"
                 [] kaspiOrderId = "-5"   -> ""
                 [] OTHER                 -> kaspiOrderId
  IN  IF first = "" THEN kaspiOrderId ELSE first

\* the rating argument: left out, a value that is not a number, or a number
NoRating == [kind |-> "undefined", value |-> 0]

NotANumber == [kind |-> "nan", value |-> 0]

Rating(value) == [kind |-> "number", value |-> value]

\* '#'
Placeholder ==
  [placeholder |-> TRUE, productCode |-> NULL, orderCode |-> NULL, rating |-> 0]

\* the URL with its three query parameters
ReviewUrl(productCode, orderCode, rating) ==
  [placeholder |-> FALSE, productCode |-> productCode, orderCode |-> orderCode,
   rating |-> rating]

\* lines 455-457 of generateReviewLink with the default of the parameter
\* (line 444): a rating that is no number or is outside 1..5 becomes 5
ValidateRating(rating) ==
  IF rating.kind # "number" THEN 5
  ELSE IF rating.value < 1 \/ rating.value > 5 THEN 5
  ELSE rating.value

\* generateReviewLink(productCode, orderCode, rating)
generateReviewLink(productCode, orderCode, rating) ==
  IF Absent(productCode) \/ Absent(orderCode)
  THEN Placeholder
  ELSE ReviewUrl(EncodeURIComponent(productCode), EncodeURIComponent(orderCode),
                 ValidateRating(rating))

\* reviewLink of WhatsAppService.sendReviewRequest (whatsappService.js:104-109)
LegacyReviewLink(productCode, kaspiOrderId) ==
  generateReviewLink(productCode, OrderCode(kaspiOrderId), NoRating)

\* reviewLink of WhatsAppCloudService.sendReviewRequest
\* (whatsappCloudService.js:325-327): the template literal, without
\* generateReviewLink
CloudReviewLink(productCode, kaspiOrderId) ==
  ReviewUrl(Interpolate(productCode), Interpolate(OrderCode(kaspiOrderId)), 5)

IdleLink ==
  [path |-> "none", productCode |-> NULL, orderCode |-> NULL,
   rating |-> NoRating, reviewLink |-> Placeholder]

InitLink == link = IdleLink

\* a call of generateReviewLink
GenerateReviewLinkCall(productCode, orderCode, rating) ==
  link' = [path |-> "generate", productCode |-> productCode,
           orderCode |-> orderCode, rating |-> rating,
           reviewLink |-> generateReviewLink(productCode, orderCode, rating)]

\* sendReviewRequest of a messaging service builds the link for an order
\* whose first item has the product code
SendBuildsLink(service, productCode, kaspiOrderId) ==
  link' = [path |-> service, productCode |-> productCode,
           orderCode |-> OrderCode(kaspiOrderId), rating |-> NoRating,
           reviewLink |-> IF service = "cloud"
                          THEN CloudReviewLink(productCode, kaspiOrderId)
                          ELSE LegacyReviewLink(productCode, kaspiOrderId)]

(***************************************************************************)
(* The reads for statistics: utils/safeOrderService.js and                 *)
(* getNotificationStats of the controller                                  *)
(* (notificationController.js:42-88).                                      *)
(***************************************************************************)
VARIABLES statsRead

readVars == <<statsRead>>

\* the rows of a table read for statistics
MaxReadRows == 2

\* Order.count({where: {notificationStatus}}); "any" is no where clause
CountStatus(store, status) ==
  Cardinality({k \in 1..Len(store) :
                 status \in {"any", store[k].notificationStatus}})

\* the six counts of the statistics
StatusCounts(store) ==
  [total     |-> CountStatus(store, "any"),
   pending   |-> CountStatus(store, "pending"),
   sent      |-> CountStatus(store, "sent"),
   delivered |-> CountStatus(store, "delivered"),
   read      |-> CountStatus(store, "read"),
   failed    |-> CountStatus(store, "failed")]

ZeroCounts ==
  [total |-> 0, pending |-> 0, sent |-> 0, delivered |-> 0, read |-> 0,
   failed |-> 0]

\* what an operation hands to its caller: the error it propagates (NULL when
\* it returns), the number, the counts and the rows it returns
ReadResult(error, count, counts, rows) ==
  [error |-> error, count |-> count, counts |-> counts, rows |-> rows]

\* safeOrderService.countOrders (safeOrderService.js:83-95); failAt = 0:
\* no query fails, n > 0: the n-th query of the operation fails
countOrders(store, status, failAt) ==
  IF failAt # 0
  THEN ReadResult(NULL, 0, ZeroCounts, << >>)
  ELSE ReadResult(NULL, CountStatus(store, status), ZeroCounts, << >>)

\* safeOrderService.findOrders (safeOrderService.js:24-36)
findOrders(store, status, failAt) ==
  IF failAt # 0
  THEN ReadResult(NULL, 0, ZeroCounts, << >>)
  ELSE ReadResult(NULL, 0, ZeroCounts,
                  SelectSeq(store, LAMBDA row :
                              status \in {"any", row.notificationStatus}))

\* safeOrderService.getNotificationStats (safeOrderService.js:152-192)
SafeGetNotificationStats(store, failAt) ==
  IF failAt # 0
  THEN ReadResult(NULL, 0, ZeroCounts, << >>)
  ELSE ReadResult(NULL, 0, StatusCounts(store), << >>)

\* getNotificationStats of the controller (notificationController.js:42-88):
\* six counts, the count of the last 7 days and the last failed orders, all
\* queried on the Order model inside one try whose catch calls next(error)
getNotificationStats(store, failAt) ==
  IF failAt # 0
  THEN ReadResult("DbError", 0, ZeroCounts, << >>)
  ELSE ReadResult(NULL,
                  Cardinality({k \in 1..Len(store) : store[k].recent}),
                  StatusCounts(store),
                  SelectSeq(store, LAMBDA row : row.notificationStatus = "failed"))

\* the number of queries of an operation
Queries(op) ==
  CASE op = "countOrders"              -> 1
    [] op = "findOrders"               -> 1
    [] op = "safeGetNotificationStats" -> 6
    [] OTHER                           -> 8

IdleRead ==
  [pc |-> "idle", op |-> "none", store |-> << >>, failAt |-> 0,
   result |-> ReadResult(NULL, 0, ZeroCounts, << >>)]

InitRead == statsRead = IdleRead

\* a read operation is called on the table and ends
ReadCall(op, store, status, failAt) ==
  /\ failAt \in 0..Queries(op)
  /\ statsRead' =
       [pc |-> "done", op |-> op, store |-> store, failAt |-> failAt,
        result |-> CASE op = "countOrders" -> countOrders(store, status, failAt)
                     [] op = "findOrders"  -> findOrders(store, status, failAt)
                     [] op = "safeGetNotificationStats"
                          -> SafeGetNotificationStats(store, failAt)
                     [] OTHER -> getNotificationStats(store, failAt)]

(***************************************************************************)
(* Specifications.                                                         *)
(***************************************************************************)
(***************************************************************************)
(* fetchOrders, the handler of GET /api/kaspi/fetch-orders, of              *)
(* controllers/kaspiController.js and of diagnosticController.js.          *)
(***************************************************************************)
VARIABLES endpoint

entryVars == <<endpoint>>

\* maxDays of the handler (kaspiController.js:39)
maxDays == 100

\* new Date() of the handler
EntryClock == (maxDays + 1) * oneDay

\* new Date(text) for a text that is no date
InvalidDate == 0 - 2

\* Math.ceil(a / b) for b > 0
Ceil(a, b) == 0 - ((0 - a) \div b)

\* parseInt(days) with the default of the destructuring (days = 1)
ParseDays(days) ==
  IF days.kind = "undefined" THEN [kind |-> "number", value |-> 1] ELSE days

\* fromDate and toDate as the handler computes them from the query, and the
\* error it answers with before it has logged the range
\* (kaspiController.js:11-36, diagnosticController.js:337-374)
FetchOrdersDates(version, query, clock) ==
  IF query.startDate # NullDate /\ query.endDate # NullDate
  THEN [fromDate |-> query.startDate, toDate |-> query.endDate,
        error |-> IF query.startDate = InvalidDate \/ query.endDate = InvalidDate
                  THEN "400 date format"
                  ELSE IF query.startDate >= query.endDate
                  THEN "400 start not before end"
                  ELSE NULL]
  ELSE LET d == ParseDays(query.days)
       IN  IF d.kind = "nan"
           THEN [fromDate |-> InvalidDate, toDate |-> clock,
                 error |-> IF version = "diagnostic" THEN "400 days"
                           ELSE "RangeError"]
           ELSE [fromDate |-> clock - d.value * oneDay, toDate |-> clock,
                 error |-> IF version = "diagnostic" /\ d.value <= 0
                           THEN "400 days" ELSE NULL]

\* the checks of the handler up to the call of fetchNewOrders
\* (kaspiController.js:11-44, diagnosticController.js:337-383)
FetchOrdersChecks(version, query, clock) ==
  LET dates == FetchOrdersDates(version, query, clock)
  IN  IF dates.error # NULL
      THEN dates
      ELSE IF Ceil(dates.toDate - dates.fromDate, oneDay) > maxDays
      THEN [dates EXCEPT !.error = "400 range too large"]
      ELSE dates

IdleEntry ==
  [version |-> "none", fromDate |-> NullDate, toDate |-> NullDate,
   error |-> NULL, calls |-> << >>]

InitEntry == endpoint = IdleEntry

\* GET /api/kaspi/fetch-orders is served up to the call of processOrders,
\* whose loop goes on as run "api"; outcome: how the requests to the
\* marketplace end.  Of the fetched orders the loop takes at most MaxBatch
FetchOrders(version, query, market, outcome) ==
  /\ ing["api"].pc = "idle"
  /\ LET checks == FetchOrdersChecks(version, query, EntryClock)
     IN  IF checks.error # NULL
         THEN /\ endpoint' = [version |-> version, fromDate |-> checks.fromDate,
                           toDate |-> checks.toDate, error |-> checks.error,
                           calls |-> << >>]
              /\ UNCHANGED <<fetch, ing>>
         ELSE LET ranges   == splitDateRange(checks.fromDate, checks.toDate)
                  outcomes == [k \in 1..Len(ranges) |-> outcome]
                  result   == fetchNewOrders(checks.fromDate, checks.toDate,
                                             market, outcomes)
              IN  /\ fetch' = [pc |-> "done", from |-> checks.fromDate,
                               to |-> checks.toDate, market |-> market,
                               outcomes |-> outcomes, threw |-> result.threw,
                               orders |-> result.orders,
                               requests |-> result.requests,
                               trace |-> result.trace]
                  /\ ing' = [ing EXCEPT !["api"] =
                               [IdleIng EXCEPT !.pc = "loop",
                                               !.left = Min(Len(result.orders),
                                                            MaxBatch)]]
                  /\ endpoint' = [version |-> version, fromDate |-> checks.fromDate,
                               toDate |-> checks.toDate, error |-> NULL,
                               calls |-> <<"fetchNewOrders", "processOrders">>]
  /\ UNCHANGED orders

(***************************************************************************)
(* Calls of isPhoneAllowed (whatsappService.js:28-46,                      *)
(* whatsappCloudService.js:121-139).                                       *)
(***************************************************************************)
VARIABLES allowCheck

allowVars == <<allowCheck>>

\* no call yet
IdleAllow ==
  [called |-> FALSE, phoneNumber |-> << >>, lookupOk |-> TRUE, result |-> FALSE]

InitAllow == allowCheck = IdleAllow

\* isPhoneAllowed(phoneNumber) is called and returns
IsPhoneAllowedCall(phoneNumber, lookupOk) ==
  /\ allowCheck' = [called |-> TRUE, phoneNumber |-> phoneNumber,
                    lookupOk |-> lookupOk,
                    result |-> isPhoneAllowed(allowedPhones, phoneNumber, lookupOk)]
  /\ UNCHANGED dispVars

vars ==
  <<splitVars, ingVars, dispVars, winVars, fetchVars, statsVars, linkVars,
    readVars, entryVars, allowVars>>

Init ==
  /\ InitSplit
  /\ InitIngest
  /\ InitDispatch
  /\ InitWindow
  /\ InitFetch
  /\ InitStats
  /\ InitLink
  /\ InitRead
  /\ InitEntry
  /\ InitAllow

NextSplit ==
  \E from \in (0..MaxFrom) \cup {NullDate}, to \in Dates \cup {NullDate} :
    SplitCall(from, to)

\* two interleaved processOrders runs.  findOne fails, or the entries request
\* fails and no product is asked for, or the products of found are resolved
NextIngest ==
  \/ \E r \in IngRuns, n \in 0..MaxBatch : ProcessOrdersStart(r, n)
  \/ \E r \in IngRuns, kaspiOrder \in RawOrders :
        \/ ProcessOrdersCheck(r, kaspiOrder, FALSE, FALSE, {})
        \/ ProcessOrdersCheck(r, kaspiOrder, TRUE, FALSE, {})
        \/ \E found \in SUBSET ProductIds :
             ProcessOrdersCheck(r, kaspiOrder, TRUE, TRUE, found)
  \/ \E r \in IngRuns, dbOk \in BOOLEAN : ProcessOrdersCreate(r, dbOk)
  \/ \E r \in IngRuns : ProcessOrdersReturn(r)

\* statuses an operator sets with updateOrder
StatusInputs == {NULL, "pending"}

\* a dispatch operation starts
DispatchStart ==
  \/ \E queryOk \in BOOLEAN : SendReviewRequestsStart("sched", queryOk)
  \/ \E limit \in 1..MaxLimit, queryOk \in BOOLEAN :
       ManualSendReviewRequestsStart(limit, queryOk)
  \/ \E queryOk \in BOOLEAN : RetryFailedStart(queryOk)

NextDispatch ==
  \/ \E kaspiOrder \in RawOrders : ProcessOneOrder(kaspiOrder)
  \/ Active = {} /\ DispatchStart
  \/ \E r \in {"sched", "manual"}, db \in DbOutcomes : SchedulerIteration(r, db)
  \/ \E db \in DbOutcomes : RetryIteration(db)
  \/ \E r \in {"sched", "manual", "retry"} : DispatchReturn(r)
  \/ VerifyWhatsApp
  \/ \E phoneNumber \in PhoneInputs : AddAllowedPhone(phoneNumber)
  \/ \E rec \in allowedPhones, isActive \in BOOLEAN : UpdateAllowedPhone(rec, isActive)
  \/ \E rec \in allowedPhones : DeleteAllowedPhone(rec)
  \/ \E key \in 1..Len(orders), notificationStatus \in StatusInputs :
       UpdateOrder(key, NULL, notificationStatus)

\* the splitter alone
SpecSplit == Init /\ [][NextSplit /\ UNCHANGED <<ingVars, dispVars, winVars, fetchVars, statsVars, linkVars, readVars, entryVars, allowVars>>]_vars

\* interleaved ingestion runs
SpecIngest == Init /\ [][NextIngest /\ UNCHANGED <<splitVars, dispVars, winVars, fetchVars, statsVars, linkVars, readVars, entryVars, allowVars>>]_vars

\* dispatch operations that do not overlap, over a table filled by ingestion
Spec == Init /\ [][NextDispatch /\ UNCHANGED <<splitVars, ing, winVars, fetchVars, statsVars, linkVars, readVars, entryVars, allowVars>>]_vars

\* setTimeWindow requests alone
NextTimeWindow ==
  \E start \in HourInputs, end \in HourInputs, viaController \in BOOLEAN :
    SetTimeWindow(start, end, viaController)

\* ends of the periods asked of fetchNewOrders: around the start, around 14
\* days and around twice 15 days
FetchTo ==
  {t \in Dates : \/ t <= MaxFrom + 1
                 \/ t \in ((maxDaysPerRequest * oneDay) - 1)..((maxDaysPerRequest + 1) * oneDay + 1)
                 \/ t >= 2 * (maxDaysPerRequest + 1) * oneDay - 1}

\* the setTimeWindow requests made while orders are dispatched: a window
\* before the current hour, the default window, and an invalid one
GateCalls == {<<0, 9>>, <<9, 21>>, <<21, 9>>}

\* scheduled and manual dispatch while the window is moved
NextGate ==
  \/ \E kaspiOrder \in RawOrders : ProcessOneOrder(kaspiOrder) /\ UNCHANGED winVars
  \/ \E call \in GateCalls : SetTimeWindow(call[1], call[2], TRUE)
  \/ /\ Active = {}
     /\ \/ \E queryOk \in BOOLEAN : SendReviewRequestsStart("sched", queryOk)
        \/ \E limit \in 1..MaxLimit, queryOk \in BOOLEAN :
             ManualSendReviewRequestsStart(limit, queryOk)
     /\ UNCHANGED winVars
  \/ /\ \E r \in {"sched", "manual"}, db \in DbOutcomes : SchedulerIteration(r, db)
     /\ UNCHANGED winVars
  \/ \E r \in {"sched", "manual"} : DispatchReturn(r) /\ UNCHANGED winVars
  \/ VerifyWhatsApp /\ UNCHANGED winVars

SpecGate == Init /\ [][NextGate /\ UNCHANGED <<splitVars, ing, fetchVars, statsVars, linkVars, readVars, entryVars, allowVars>>]_vars

\* Orders that a scheduled batch left failed are retried through the cloud
\* gateway (notificationController.js:161-223) while phones are added to
\* the allow-list
NextRetry ==
  \/ \E kaspiOrder \in RawOrders : ProcessOneOrder(kaspiOrder)
  \/ /\ Active = {}
     /\ \/ \E queryOk \in BOOLEAN : SendReviewRequestsStart("sched", queryOk)
        \/ \E queryOk \in BOOLEAN : RetryFailedStart(queryOk)
  \/ \E db \in DbOutcomes : SchedulerIteration("sched", db)
  \/ \E db \in DbOutcomes : RetryIteration(db)
  \/ \E r \in {"sched", "retry"} : DispatchReturn(r)
  \/ \E phoneNumber \in PhoneInputs : AddAllowedPhone(phoneNumber)

SpecRetry ==
  Init /\ [][NextRetry /\ UNCHANGED <<splitVars, ing, winVars, fetchVars,
                                     statsVars, linkVars, readVars, entryVars, allowVars>>]_vars

\* what a request body of updateOrder can carry as orderStatus and as
\* notificationStatus (whatsappController.js:266): nothing, a status of the
\* model, or any other text
BodyOrderStatuses == {NULL, "completed", "cancelled"}

BodyNotificationStatuses ==
  {NULL, "pending", "sent", "delivered", "read", "failed", "archived"}

\* ingestion, scheduled dispatch, retry and the updates of an operator
NextUpdate ==
  \/ \E kaspiOrder \in RawOrders : ProcessOneOrder(kaspiOrder)
  \/ /\ Active = {}
     /\ \/ \E queryOk \in BOOLEAN : SendReviewRequestsStart("sched", queryOk)
        \/ \E queryOk \in BOOLEAN : RetryFailedStart(queryOk)
  \/ \E db \in DbOutcomes : SchedulerIteration("sched", db)
  \/ \E db \in DbOutcomes : RetryIteration(db)
  \/ \E r \in {"sched", "retry"} : DispatchReturn(r)
  \/ \E key \in 1..Len(orders), orderStatus \in BodyOrderStatuses,
        notificationStatus \in BodyNotificationStatuses :
       UpdateOrder(key, orderStatus, notificationStatus)

SpecUpdate ==
  Init /\ [][NextUpdate /\ UNCHANGED <<splitVars, ing, winVars, fetchVars,
                                      statsVars, linkVars, readVars, entryVars, allowVars>>]_vars

\* checkNewOrders runs processOrders step by step while another ingestion
\* stores orders and scheduled batches are dispatched; the storage accepts
\* every insert that the unique index allows
NextInterleave ==
  \/ /\ \/ \E n \in 1..MaxBatch : ProcessOrdersStart("cron", n)
        \/ \E kaspiOrder \in RawOrders, findOk \in BOOLEAN :
             ProcessOrdersCheck("cron", kaspiOrder, findOk, TRUE, ProductIds)
        \/ ProcessOrdersCreate("cron", TRUE)
        \/ ProcessOrdersReturn("cron")
     /\ UNCHANGED dispVars
  \/ /\ \/ \E kaspiOrder \in RawOrders : ProcessOneOrder(kaspiOrder)
        \/ \E queryOk \in BOOLEAN :
             Active = {} /\ SendReviewRequestsStart("sched", queryOk)
        \/ \E db \in DbOutcomes : SchedulerIteration("sched", db)
        \/ DispatchReturn("sched")
        \/ VerifyWhatsApp
     /\ UNCHANGED ing

SpecInterleave ==
  Init /\ [][NextInterleave /\ UNCHANGED <<splitVars, winVars, fetchVars,
                                          statsVars, linkVars, readVars, entryVars, allowVars>>]_vars

\* a cron tick of sendReviewRequests and a manual dispatch request arrive
\* whenever they arrive (notificationScheduler.js:25-27,
\* notificationController.js:14-38)
NextOverlap ==
  \/ \E kaspiOrder \in RawOrders : ProcessOneOrder(kaspiOrder)
  \/ \E queryOk \in BOOLEAN : SendReviewRequestsStart("sched", queryOk)
  \/ \E limit \in 1..MaxLimit, queryOk \in BOOLEAN :
       ManualSendReviewRequestsStart(limit, queryOk)
  \/ \E r \in {"sched", "manual"}, db \in DbOutcomes : SchedulerIteration(r, db)
  \/ \E r \in {"sched", "manual"} : DispatchReturn(r)
  \/ VerifyWhatsApp

SpecOverlap ==
  Init /\ [][NextOverlap /\ UNCHANGED <<splitVars, ing, winVars, fetchVars,
                                       statsVars, linkVars, readVars, entryVars, allowVars>>]_vars

\* the days parameter of a fetch-orders request: left out, no number, or a
\* number
DaysInputs ==
  {[kind |-> "undefined", value |-> 0], [kind |-> "nan", value |-> 0]}
    \cup {[kind |-> "number", value |-> d] : d \in {0 - 1, 0, 1, maxDays + 1}}

\* startDate and endDate of a fetch-orders request: left out, no date, a
\* day, more days than one window, equal dates, dates in reverse order, and
\* one tick more than maxDays days
DatePairs ==
  {<<NullDate, NullDate>>, <<0, NullDate>>, <<InvalidDate, oneDay>>,
   <<0, InvalidDate>>, <<0, oneDay>>, <<oneDay, oneDay>>, <<oneDay, 0>>,
   <<0, (maxDaysPerRequest + 2) * oneDay>>, <<0, maxDays * oneDay + 1>>}

\* the queries of fetch-orders requests: with dates, with days, with both
EntryQueries ==
  {[startDate |-> pair[1], endDate |-> pair[2],
    days |-> [kind |-> "undefined", value |-> 0]] : pair \in DatePairs}
    \cup {[startDate |-> NullDate, endDate |-> NullDate, days |-> days] :
            days \in DaysInputs}
    \cup {[startDate |-> 0, endDate |-> oneDay,
           days |-> [kind |-> "number", value |-> maxDays + 1]]}

\* fetch-orders requests arrive, and the processOrders run of an accepted
\* one goes through its loop
NextEntry ==
  \/ \E version \in {"kaspi", "diagnostic"}, query \in EntryQueries,
        outcome \in {"ok", "error"} :
       FetchOrders(version, query, "sparse", outcome)
  \/ /\ \/ \E kaspiOrder \in RawOrders :
               ProcessOrdersCheck("api", kaspiOrder, TRUE, TRUE, ProductIds)
        \/ \E dbOk \in BOOLEAN : ProcessOrdersCreate("api", dbOk)
        \/ ProcessOrdersReturn("api")
     /\ UNCHANGED <<fetchVars, entryVars>>

SpecEntry ==
  Init /\ [][NextEntry /\ UNCHANGED <<splitVars, dispVars, winVars, statsVars,
                                     linkVars, readVars, allowVars>>]_vars

\* phone numbers as typed by an operator and as stored with orders: with a
\* plus sign, with a hyphen, digits only, another number, no digit at all,
\* and the empty text
TypedPhones ==
  {<<"+", "7", "1">>, <<"7", "-", "1">>, <<"7", "1">>, <<"7", "2">>, <<"-">>,
   << >>}

\* the allow-list is edited and isPhoneAllowed is called
NextAllow ==
  \/ /\ \/ \E phoneNumber \in TypedPhones : AddAllowedPhone(phoneNumber)
        \/ \E rec \in allowedPhones, isActive \in BOOLEAN :
             UpdateAllowedPhone(rec, isActive)
        \/ \E rec \in allowedPhones : DeleteAllowedPhone(rec)
     /\ UNCHANGED allowVars
  \/ \E phoneNumber \in TypedPhones, lookupOk \in BOOLEAN :
       IsPhoneAllowedCall(phoneNumber, lookupOk)

SpecAllow ==
  Init /\ [][NextAllow /\ UNCHANGED <<splitVars, ingVars, winVars, fetchVars,
                                     statsVars, linkVars, readVars, entryVars>>]_vars

\* The cron trigger keeps firing inside the window while a backlog is
\* ingested; the updates of the loop succeed.  An iteration that can run
\* does run, a batch that is over returns, and a tick whose query succeeds
\* comes again and again (cron '*/15 * * * *', notificationScheduler.js:25)
NextBacklog ==
  \/ ProcessBacklogOrder
  \/ VerifyWhatsApp
  \/ \E queryOk \in BOOLEAN : CronTick(queryOk)
  \/ SchedulerIteration("sched", "ok")
  \/ DispatchReturn("sched")

SpecBacklog ==
  /\ Init
  /\ [][NextBacklog /\ UNCHANGED <<splitVars, ing, winVars, fetchVars, statsVars,
                                    linkVars, readVars, entryVars, allowVars>>]_vars
  /\ WF_<<orders, dispVars>>(CronTick(TRUE))
  /\ WF_<<orders, dispVars>>(SchedulerIteration("sched", "ok"))
  /\ WF_<<orders, dispVars>>(DispatchReturn("sched"))

\* Retries over a backlog the scheduler could not send: the service is never
\* verified and the allow-list stays empty, so every send fails.  Operations
\* do not overlap, the queries and the updates succeed; an iteration that can
\* run does run, a batch that is over returns, and a retry request comes
\* again and again
NextStarve ==
  \/ ProcessBacklog
  \/ Active = {} /\ CronTick(TRUE)
  \/ SchedulerIteration("sched", "ok")
  \/ DispatchReturn("sched")
  \/ Active = {} /\ RetryFailedCall(TRUE)
  \/ RetryIteration("ok")
  \/ DispatchReturn("retry")

SpecStarve ==
  /\ Init
  /\ [][NextStarve /\ UNCHANGED <<splitVars, ing, winVars, fetchVars, statsVars,
                                   linkVars, readVars, entryVars, allowVars>>]_vars
  /\ WF_<<orders, dispVars>>(SchedulerIteration("sched", "ok"))
  /\ WF_<<orders, dispVars>>(DispatchReturn("sched"))
  /\ WF_<<orders, dispVars>>(Active = {} /\ RetryFailedCall(TRUE))
  /\ WF_<<orders, dispVars>>(RetryIteration("ok"))
  /\ WF_<<orders, dispVars>>(DispatchReturn("retry"))

\* the cron callback of sendReviewRequests fires again and again
\* (startScheduling, part_005:25-27), whatever the earlier invocations do
NextCron ==
  \/ \E kaspiOrder \in RawOrders : ProcessOneOrder(kaspiOrder)
  \/ \E r \in SchedRuns, queryOk \in BOOLEAN : SendReviewRequestsStart(r, queryOk)
  \/ \E r \in SchedRuns, db \in DbOutcomes : SchedulerIteration(r, db)
  \/ \E r \in SchedRuns : DispatchReturn(r)
  \/ VerifyWhatsApp

SpecCron ==
  Init /\ [][NextCron /\ UNCHANGED <<splitVars, ing, winVars, fetchVars, statsVars, linkVars, readVars, entryVars, allowVars>>]_vars

SpecTimeWindow ==
  Init /\ [][NextTimeWindow /\ UNCHANGED <<splitVars, ing, fetchVars, statsVars, linkVars, readVars, entryVars, allowVars>>]_vars

\* fetchNewOrders calls
NextFetch ==
  \E from \in (0..MaxFrom) \cup {NullDate}, to \in FetchTo \cup {NullDate},
     market \in Markets :
    \E outcomes \in [1..Len(splitDateRange(from, to)) -> Outcomes] :
      FetchCall(from, to, market, outcomes)

SpecFetch ==
  Init /\ [][NextFetch /\ UNCHANGED <<splitVars, ingVars, dispVars, winVars,
                                     statsVars, linkVars, readVars, entryVars, allowVars>>]_vars

\* the instants at which a request for the daily statistics arrives: at noon
\* and in the last hour of a UTC day, within statsDays days of the change of
\* offset of the zone that has one
StatsClocks == {100 * 24 + 12, 100 * 24 + 23}

\* the orders stored when the request arrives: none, or orders sent a day
\* ago, one of them since failed, and an order sent before the period
StatsRows(clock) ==
  {<< >>,
   <<[notificationSentAt |-> clock - 24, notificationStatus |-> "sent"],
     [notificationSentAt |-> clock - 24, notificationStatus |-> "failed"],
     [notificationSentAt |-> clock - 24 * 40, notificationStatus |-> "sent"],
     [notificationSentAt |-> NullDate, notificationStatus |-> "pending"]>>}

NextStats ==
  \/ \E zone \in Zones, clock \in StatsClocks :
       \E rows \in StatsRows(clock) : GetDailyStatsStart(zone, clock, rows)
  \/ \E advance \in {0, 1} : GetDailyStatsFill(advance)
  \/ GetDailyStatsReturn

SpecStats ==
  Init /\ [][NextStats /\ UNCHANGED <<splitVars, ingVars, dispVars, winVars,
                                     fetchVars, linkVars, readVars, entryVars, allowVars>>]_vars

\* product codes: undefined, empty, plain, and with characters that
\* encodeURIComponent escapes
ProductCodeInputs == {NULL, "", "cA", "c A", "c&A"}

\* order codes handed to generateReviewLink
OrderCodeInputs == {NULL, "", "77"}

\* kaspiOrderId of an order: empty, without hyphen, with a hyphen, and
\* starting with a hyphen
KaspiOrderIdInputs == {"", "77", "77-1", "-5"}

RatingInputs ==
  {NoRating, NotANumber} \cup {Rating(value) : value \in {0 - 1, 0, 1, 3, 5, 6}}

NextLink ==
  \/ \E productCode \in ProductCodeInputs, orderCode \in OrderCodeInputs,
        rating \in RatingInputs :
       GenerateReviewLinkCall(productCode, orderCode, rating)
  \/ \E service \in {"legacy", "cloud"}, productCode \in ProductCodeInputs,
        kaspiOrderId \in KaspiOrderIdInputs :
       SendBuildsLink(service, productCode, kaspiOrderId)

SpecLink ==
  Init /\ [][NextLink /\ UNCHANGED <<splitVars, ingVars, dispVars, winVars,
                                    fetchVars, statsVars, readVars, entryVars, allowVars>>]_vars

\* the rows of the tables read: a status, and whether notificationSentAt is
\* within the last 7 days
ReadRows ==
  {[notificationStatus |-> "pending", recent |-> FALSE],
   [notificationStatus |-> "sent", recent |-> TRUE],
   [notificationStatus |-> "sent", recent |-> FALSE],
   [notificationStatus |-> "failed", recent |-> FALSE]}

ReadStores == UNION {[1..n -> ReadRows] : n \in 0..MaxReadRows}

ReadOps ==
  {"countOrders", "findOrders", "safeGetNotificationStats",
   "getNotificationStats"}

NextRead ==
  \E op \in ReadOps, store \in ReadStores, status \in {"any", "failed"},
     failAt \in 0..8 :
    ReadCall(op, store, status, failAt)

SpecRead ==
  Init /\ [][NextRead /\ UNCHANGED <<splitVars, ingVars, dispVars, winVars,
                                    fetchVars, statsVars, linkVars, entryVars, allowVars>>]_vars

(***************************************************************************)
(* Properties of the splitter (SpecSplit).                                 *)
(***************************************************************************)
SplitReturned == splitPc = "done" /\ fromDate # NullDate /\ toDate # NullDate

WindowCovers(w, t) == w.fromDate <= t /\ t <= w.toDate

\* C4: for from < to the windows returned by splitDateRange are ordered, the
\* first starts at from, the last ends at to, every instant of [from, to]
\* lies in a window and no window is longer than maxDaysPerRequest days
C4_WindowsCoverRange ==
  (SplitReturned /\ fromDate < toDate) =>
     /\ Len(dateRanges) >= 1
     /\ dateRanges[1].fromDate = fromDate
     /\ dateRanges[Len(dateRanges)].toDate = toDate
     /\ \A k \in 1..(Len(dateRanges) - 1) :
          dateRanges[k].fromDate < dateRanges[k + 1].fromDate
     /\ \A t \in fromDate..toDate :
          \E k \in 1..Len(dateRanges) : WindowCovers(dateRanges[k], t)
     /\ \A k \in 1..Len(dateRanges) :
          dateRanges[k].toDate - dateRanges[k].fromDate <= maxDaysPerRequest * oneDay

\* C5: every window after the first starts exactly one time unit (one tick)
\* after the end of the window before it, and every window has from < to
C5_WindowsContiguous ==
  SplitReturned =>
     /\ \A k \in 2..Len(dateRanges) :
          dateRanges[k].fromDate = dateRanges[k - 1].toDate + 1
     /\ \A k \in 1..Len(dateRanges) :
          dateRanges[k].fromDate < dateRanges[k].toDate

\* C6: a period of 30 days is split into exactly 3 windows of 14, 14 and 2
\* days that do not overlap
C6_ThirtyDaysThreeWindows ==
  (SplitReturned /\ toDate - fromDate = 30 * oneDay) =>
     /\ Len(dateRanges) = 3
     /\ dateRanges[1].toDate - dateRanges[1].fromDate = 14 * oneDay
     /\ dateRanges[2].toDate - dateRanges[2].fromDate = 14 * oneDay
     /\ dateRanges[3].toDate - dateRanges[3].fromDate = 2 * oneDay
     /\ dateRanges[1].toDate <= dateRanges[2].fromDate
     /\ dateRanges[2].toDate <= dateRanges[3].fromDate

(***************************************************************************)
(* Properties of ingestion (SpecIngest).                                   *)
(***************************************************************************)
RowsOf(kaspiOrderId) ==
  {k \in 1..Len(orders) : orders[k].kaspiOrderId = kaspiOrderId}

\* C3: whatever ingestion runs took place, the table holds at most one row
\* per external order id, and exactly one for an id whose insert succeeded
C3_OneRowPerExternalId ==
  \A k \in 1..Len(orders) : RowsOf(orders[k].kaspiOrderId) = {k}

\* a run is about to insert an id that another run has stored meanwhile
C3_SecondInsertOfSameId ==
  \E r \in IngRuns :
    /\ ing[r].pc = "create"
    /\ OrderExists(orders, ing[r].data.kaspiOrderId)

\* C7: no stored order has an empty or missing customerPhone
C7_NoOrderWithoutPhone ==
  \A k \in 1..Len(orders) : orders[k].customerPhone # << >>

WellFormedEntry(entry) ==
  /\ entry.relationships # NullObject
  /\ entry.relationships.product # NullObject
  /\ entry.relationships.product.data # NullObject

\* the entries of an order that are well formed and whose product the
\* marketplace resolved, in their original order, as items
RemainingItems(kaspiOrderId, entriesOk, found) ==
  LET entries == IF entriesOk THEN KaspiEntries(kaspiOrderId) ELSE << >>
      kept    == SelectSeq(entries,
                   LAMBDA e : WellFormedEntry(e)
                              /\ e.relationships.product.data.id \in found)
  IN  [k \in 1..Len(kept) |->
         [entryId   |-> kept[k].id,
          productId |-> kept[k].relationships.product.data.id,
          name      |-> KaspiProduct(kept[k].relationships.product.data.id).attributes.name,
          code      |-> KaspiProduct(kept[k].relationships.product.data.id).attributes.code]]

\* C8: an entry that is malformed or whose product is not resolved is
\* skipped alone: the order goes on to the insert with exactly the other
\* entries as its orderItems, in their order, and is stored with them
C8_BadEntrySkippedAlone ==
  /\ \A r \in IngRuns :
       ing[r].pc = "create" =>
         ing[r].data.orderItems =
           RemainingItems(ing[r].data.kaspiOrderId, ing[r].entriesOk, ing[r].found)
  /\ \A k \in 1..Len(orders) :
       \E entriesOk \in BOOLEAN, found \in SUBSET ProductIds :
         orders[k].orderItems = RemainingItems(orders[k].kaspiOrderId, entriesOk, found)

\* order 1, whose second entry of three is malformed, is stored with the
\* first and the third
C8_TwoOfThreeStored ==
  \E k \in 1..Len(orders) :
    /\ Len(KaspiEntries(orders[k].kaspiOrderId)) = 3
    /\ Len(orders[k].orderItems) = 2
    /\ orders[k].orderItems[1].entryId = 1
    /\ orders[k].orderItems[2].entryId = 3

\* C16: when a run reaches Order.create for an id that another run has
\* stored since the existence check, the table keeps its single row for the
\* id, the rejected insert is not handled as an error, and the run goes on
\* with its remaining orders
C16_LostRaceIsNotAnError ==
  [][\A r \in IngRuns :
       (/\ ing[r].pc = "create"
        /\ ing'[r].pc # "create"
        /\ OrderExists(orders, ing[r].data.kaspiOrderId))
         => /\ orders' = orders
            /\ ing'[r].pc = "loop"
            /\ ing'[r].left = ing[r].left - 1
            /\ ~ing'[r].errorLogged
    ]_vars

\* C33: savedOrders of a processOrders run, which fetchOrders reports as
\* totalProcessed, counts exactly the orders the run stored: it starts at
\* zero, every step of the run changes it by the growth of the table, an
\* order that exists, is skipped or whose insert fails adds nothing, and it
\* grows by at most one per raw order taken
C33_ProcessedCountsNewlyStored ==
  [][\A r \in IngRuns :
       ing'[r] # ing[r] =>
         IF ing[r].pc = "idle"
         THEN ing'[r].saved = 0 /\ orders' = orders
         ELSE /\ ing'[r].saved - ing[r].saved = Len(orders') - Len(orders)
              /\ ing'[r].saved - ing[r].saved \in {0, 1}
              /\ ing'[r].saved - ing[r].saved <= ing[r].left - ing'[r].left
              /\ ing'[r].saved > ing[r].saved
                   => /\ ~OrderExists(orders, ing[r].data.kaspiOrderId)
                      /\ orders'[Len(orders')] = ing[r].data
    ]_vars

\* a run of two raw orders is over: it stored the first, the insert of the
\* second was refused because another processOrders call had stored that
\* order in between, and it counts one order while the table holds two
C33_OneStoredOneRefused ==
  /\ ing["cron"].pc = "loop"
  /\ ing["cron"].left = 0
  /\ ing["cron"].saved = 1
  /\ ing["cron"].errorLogged
  /\ Len(orders) = 2

(***************************************************************************)
(* Properties of dispatch (Spec).                                          *)
(***************************************************************************)
\* this step is an iteration of the loop of operation r
Attempted(r) == disp'[r].i = disp[r].i + 1

\* primary key of the order the next iteration of r handles
AttemptKey(r) == disp[r].selected[disp[r].i + 1]

\* the phone number is in the AllowedPhone table and active
ActiveInAllowList(phoneNumber) ==
  \E rec \in allowedPhones :
    rec.phoneNumber = NormalizePhone(phoneNumber) /\ rec.isActive

\* C1: a scheduled or manual dispatch attempt is made only on an order whose
\* notificationStatus is pending, and leaves it sent when the send succeeded
\* and failed with the error message stored when the send threw; no order is
\* moved out of sent, delivered or read
C1_PendingToSentOrFailed ==
  [][\A r \in {"sched", "manual"} :
       Attempted(r) =>
         LET before == orders[AttemptKey(r)]
             after  == orders'[AttemptKey(r)]
             send   == LegacySendReviewRequest(before, isWhatsAppVerified)
         IN  /\ before.notificationStatus = "pending"
             /\ send.ok => after.notificationStatus = "sent"
             /\ ~send.ok => /\ after.notificationStatus = "failed"
                            /\ after.notificationError = send.error
             /\ \A k \in 1..Len(orders) :
                  orders[k].notificationStatus \in {"sent", "delivered", "read"}
                    => orders'[k].notificationStatus = orders[k].notificationStatus
    ]_vars

\* C2: in scheduled dispatch, manual dispatch and retryFailed, an order whose
\* customer phone is not present and active in AllowedPhone is not reported
\* sent and no request goes to the messaging gateway for it
C2_AllowListFailsClosed ==
  [][\A r \in DispRuns :
       (Attempted(r) /\ ~ActiveInAllowList(orders[AttemptKey(r)].customerPhone))
         => /\ disp'[r].outcome # "success"
            /\ disp'[r].posted = 0
            /\ gateway' = gateway
    ]_vars

\* C9: when an iteration of scheduled dispatch, manual dispatch or
\* retryFailed ends in success, the stored order has notificationStatus sent,
\* notificationSentAt the time of the send and notificationError null
C9_SuccessSetsSentAtAndClearsError ==
  [][\A r \in DispRuns :
       (Attempted(r) /\ disp'[r].outcome = "success")
         => LET after == orders'[AttemptKey(r)]
            IN  /\ after.notificationStatus = "sent"
                /\ after.notificationSentAt = now
                /\ after.notificationError = NULL
    ]_vars

\* C10: a send that fails for one order does not end the batch of a scheduled
\* or manual dispatch: the loop is left only when every selected order was
\* handled, and manual dispatch has one result entry per handled order
C10_FailureDoesNotStopBatch ==
  \A r \in {"sched", "manual"} :
    /\ (disp[r].pc = "threw" /\ disp[r].posted = 0)
         => disp[r].i = Len(disp[r].selected)
    /\ (r = "manual" /\ disp[r].pc = "loop")
         => Len(disp[r].results) = disp[r].i

(***************************************************************************)
(* Properties of the dispatch window (SpecTimeWindow, SpecGate).           *)
(***************************************************************************)
\* C11: a setTimeWindow call with 0 <= startHour < endHour <= 23 makes its
\* arguments the window and any other call leaves the window as it was, so
\* the window is always that of the latest such call, or (9, 21)
C11_WindowOfLatestValidCall ==
  [][timeWindowCall' # timeWindowCall \/ startHour' # startHour \/ endHour' # endHour
       => IF /\ 0 <= timeWindowCall'[1]
             /\ timeWindowCall'[1] < timeWindowCall'[2]
             /\ timeWindowCall'[2] <= 23
          THEN <<startHour', endHour'>> = timeWindowCall'
          ELSE <<startHour', endHour'>> = <<startHour, endHour>>
    ]_vars

\* setTimeWindow(22, 20) was the latest call and the window is (9, 21)
C11_InvalidCallLeftWindow ==
  /\ timeWindowCall = <<22, 20>>
  /\ <<startHour, endHour>> = <<9, 21>>

\* C12: a sendReviewRequests tick that starts at an hour outside
\* [startHour, endHour) selects no order, so no send follows from it, and it
\* changes no stored order
C12_TickOutsideWindowIsNoOp ==
  [][((\E queryOk \in BOOLEAN : SendReviewRequestsStart("sched", queryOk))
        /\ ~(startHour <= CurrentHour /\ CurrentHour < endHour))
       => /\ disp'["sched"].pc = "idle"
          /\ disp'["sched"].selected = << >>
          /\ orders' = orders
          /\ gateway' = gateway
    ]_vars

\* a tick was turned away by the window although a verified service had a
\* pending order to send
C12_TickTurnedAway ==
  /\ disp["sched"].outcome = "outside"
  /\ ~(startHour <= CurrentHour /\ CurrentHour < endHour)
  /\ isWhatsAppVerified
  /\ PendingKeys(orders) # {}

\* C13: manualSendReviewRequests selects pending orders at any hour, and an
\* iteration of its loop leaves the order as the iteration of
\* sendReviewRequests does for the same order and the same outcome of the
\* send and of the updates
C13_ManualAsScheduled ==
  [][/\ \A limit \in 1..MaxLimit :
          (ManualSendReviewRequestsStart(limit, TRUE) /\ PendingKeys(orders) # {})
            => disp'["manual"].pc = "loop"
     /\ Attempted("manual") =>
          LET before == orders[AttemptKey("manual")]
              after  == orders'[AttemptKey("manual")]
              send   == LegacySendReviewRequest(before, isWhatsAppVerified)
          IN  after = CASE disp'["manual"].outcome = "success"
                             -> MarkSent(before, now)
                        [] disp'["manual"].outcome = "failed"
                             -> MarkFailed(before, ErrorMessage(send))
                        [] OTHER -> before
    ]_vars

\* a manual dispatch has sent an order at an hour outside the window
C13_ManualSentOutsideWindow ==
  /\ ~(startHour <= CurrentHour /\ CurrentHour < endHour)
  /\ disp["manual"].pc = "loop"
  /\ disp["manual"].outcome = "success"
  /\ timeWindowCall = <<0, 9>>

\* C30: every message a sendReviewRequests batch posts is posted at an
\* hour h with startHour <= h < endHour of the window in force at the
\* moment of the send
C30_ScheduledSendInsideWindow ==
  [][(Attempted("sched") /\ disp'["sched"].posted > 0)
       => (startHour <= CurrentHour /\ CurrentHour < endHour)
    ]_vars

\* C32: in a scheduled and in a manual batch a pause lies between the send
\* attempts of every two consecutive orders, however the earlier attempt
\* ended
C32_DelayBetweenSends ==
  [][\A r \in {"sched", "manual"} :
       (Attempted(r) /\ disp[r].i >= 1) => disp[r].paused
    ]_vars

(***************************************************************************)
(* Properties of fetchNewOrders (SpecFetch).                               *)
(***************************************************************************)
\* the orders a fetchNewOrders call returned
Returned == {fetch.orders[k] : k \in 1..Len(fetch.orders)}

\* the windows the call asked the marketplace for
FetchRanges == splitDateRange(fetch.from, fetch.to)

\* the completed orders of the marketplace created in [from, to]
OrdersOfPeriod(market, from, to) ==
  {o \in (from..to) \X (1..(pageSize + 1)) : o[2] <= Created(market, o[1])}

C15_FetchReturnsEveryOrder ==
  (/\ fetch.pc = "done"
   /\ fetch.from # NullDate /\ fetch.to # NullDate
   /\ fetch.from < fetch.to
   /\ \A j \in 1..Len(FetchRanges) : fetch.outcomes[j] = "ok"
   /\ \A t \in fetch.from..fetch.to :
        \E j \in 1..Len(FetchRanges) : WindowCovers(FetchRanges[j], t))
    => Returned = OrdersOfPeriod(fetch.market, fetch.from, fetch.to)

\* C23: for dates with from >= to splitDateRange returns no window, and
\* fetchNewOrders called with them sends no request to the marketplace and
\* returns no order
C23_EmptyRangeNoRequest ==
  (/\ fetch.pc = "done"
   /\ fetch.from # NullDate /\ fetch.to # NullDate
   /\ fetch.from >= fetch.to)
    => /\ splitDateRange(fetch.from, fetch.to) = << >>
       /\ fetch.requests = 0
       /\ fetch.orders = << >>
       /\ ~fetch.threw

\* fetchNewOrders returned for a period that ends where it starts
C23_CalledWithEmptyRange ==
  /\ fetch.pc = "done"
  /\ fetch.from # NullDate
  /\ fetch.from = fetch.to
  /\ fetch.requests = 0

\* C31: when fetchNewOrders works through more than one window, a pause
\* lies between the requests of every two consecutive windows, however the
\* earlier request ended; with a single window there is no pause
C31_DelayBetweenWindows ==
  fetch.pc = "done"
    => /\ \A k \in 1..(Len(fetch.trace) - 1) :
            ~(fetch.trace[k] = "request" /\ fetch.trace[k + 1] = "request")
       /\ fetch.requests = 1
            => \A k \in 1..Len(fetch.trace) : fetch.trace[k] # "delay"

(***************************************************************************)
(* Properties of the cron triggers (SpecCron).                             *)
(***************************************************************************)
\* C17: the handler of a tick of the dispatch trigger starts only when the
\* handler of the tick before it has returned: two invocations of
\* sendReviewRequests are never in their loops at the same time
C17_SameTriggerNeverOverlaps ==
  ~(disp["sched"].pc = "loop" /\ disp["sched2"].pc = "loop")

(***************************************************************************)
(* Properties of manual dispatch and of the retry of failed orders (Spec). *)
(***************************************************************************)
\* C18: a manual dispatch whose query for the pending orders fails, while
\* pending orders are stored, ends by raising an error and never as a run
\* that found nothing to send
C18_QueryFailureRaises ==
  [][(/\ PendingKeys(orders) # {}
      /\ \E limit \in 1..MaxLimit : ManualSendReviewRequestsStart(limit, FALSE))
       => disp'["manual"].pc = "threw"
    ]_vars

\* the orders retryFailedNotifications selected are all failed
RetrySelectsOnlyFailed ==
  disp["retry"].pc = "idle" /\ disp'["retry"].pc = "loop"
    => \A n \in 1..Len(disp'["retry"].selected) :
         orders[disp'["retry"].selected[n]].notificationStatus = "failed"

\* the iteration of retryFailedNotifications for a failed order leaves it
\* sent, with the time of the send and no error, when the send succeeded, and
\* failed with the error of this attempt otherwise
RetryTransition ==
  LET before == orders[AttemptKey("retry")]
      after  == orders'[AttemptKey("retry")]
  IN  IF disp'["retry"].outcome = "success"
      THEN /\ after.notificationStatus = "sent"
           /\ after.notificationSentAt = now
           /\ after.notificationError = NULL
      ELSE /\ after.notificationStatus = "failed"
           /\ \E send \in RetrySends(before) :
                after.notificationError = ErrorMessage(send)

\* C19: retryFailedNotifications selects only failed orders and re-attempts
\* the send for each: a success makes the order sent with notificationSentAt
\* set and notificationError null, a failure leaves it failed with the error
\* of this attempt, and the loop goes on to the next order after a failure
C19_RetryOnlyFailedAndContinues ==
  [][/\ RetrySelectsOnlyFailed
     /\ (/\ Attempted("retry")
         /\ orders[AttemptKey("retry")].notificationStatus = "failed")
          => /\ RetryTransition
             /\ disp'["retry"].pc = "loop"
    ]_vars

\* C36: an iteration of scheduled dispatch, manual dispatch or retryFailed
\* in which the gateway accepted the message for the order does not leave
\* the order failed or pending, also when the update to sent fails
C36_AcceptedNeverFailedOrPending ==
  [][\A r \in DispRuns :
       (/\ Attempted(r)
        /\ gateway'[orders[AttemptKey(r)].kaspiOrderId]
             > gateway[orders[AttemptKey(r)].kaspiOrderId])
         => orders'[AttemptKey(r)].notificationStatus \notin {"failed", "pending"}
    ]_vars

(***************************************************************************)
(* Properties of the daily statistics (SpecStats).                         *)
(***************************************************************************)
\* every count of the entry is zero
AllCountsZero(entry) ==
  /\ entry.total = 0
  /\ entry.sent = 0
  /\ entry.delivered = 0
  /\ entry.read = 0
  /\ entry.failed = 0

\* C20: getDailyStats returns statsDays entries in ascending order of date,
\* each one calendar day after the entry before it, so that no day of the
\* period is repeated or missing; when no order was found every count of
\* every entry is zero
C20_ThirtyConsecutiveDays ==
  stats.pc = "done"
    => /\ Len(stats.data) = statsDays
       /\ \A n \in 1..(Len(stats.data) - 1) :
            stats.data[n + 1].date = stats.data[n].date + 1
       /\ stats.notifications = << >>
            => \A n \in 1..Len(stats.data) : AllCountsZero(stats.data[n])

(***************************************************************************)
(* Properties of the review link (SpecLink).                               *)
(***************************************************************************)
\* C21: the URL generateReviewLink produces carries rating 5 when no rating
\* was given and otherwise the given rating moved into 1..5: 1 for a rating
\* below 1, 5 for a rating above 5
C21_RatingClamped ==
  (/\ link.path = "generate"
   /\ ~link.reviewLink.placeholder
   /\ link.rating.kind \in {"undefined", "number"})
    => link.reviewLink.rating =
         IF link.rating.kind = "undefined" THEN 5
         ELSE IF link.rating.value < 1 THEN 1
         ELSE IF link.rating.value > 5 THEN 5
         ELSE link.rating.value

\* C22: whenever the product code or the order code is absent, the link
\* built by generateReviewLink and by the sendReviewRequest of either
\* messaging service is the placeholder
C22_PlaceholderWhenCodeAbsent ==
  (/\ link.path \in {"generate", "legacy", "cloud"}
   /\ Absent(link.productCode) \/ Absent(link.orderCode))
    => link.reviewLink = Placeholder

(***************************************************************************)
(* Properties of the selection of a batch (SpecGate).                      *)
(***************************************************************************)
\* the selected keys are at most limit eligible orders of the store, oldest
\* first, and every eligible order left out is no older than any of them
OldestEligible(selected, store, limit) ==
  /\ Len(selected) <= limit
  /\ \A n \in 1..Len(selected) :
       /\ selected[n] \in 1..Len(store)
       /\ store[selected[n]].orderStatus = "completed"
       /\ store[selected[n]].notificationStatus = "pending"
  /\ \A n, m \in 1..Len(selected) :
       n < m => /\ selected[n] # selected[m]
                /\ store[selected[n]].orderDate <= store[selected[m]].orderDate
  /\ \A k \in 1..Len(store) :
       (/\ store[k].orderStatus = "completed"
        /\ store[k].notificationStatus = "pending"
        /\ \A n \in 1..Len(selected) : selected[n] # k)
         => /\ Len(selected) = limit
            /\ \A n \in 1..Len(selected) :
                 store[selected[n]].orderDate <= store[k].orderDate

\* C24: a scheduled batch inside the window (limit schedLimit) and a manual
\* batch with limit N whose query succeeds select at most that many orders, all completed and
\* pending, the oldest by orderDate, and the loop handles them in the order
\* selected, one position at a time
C24_BatchSelectsOldestFirst ==
  [][/\ (/\ InWindow(CurrentHour, startHour, endHour)
         /\ SendReviewRequestsStart("sched", TRUE))
          => OldestEligible(disp'["sched"].selected, orders, schedLimit)
     /\ \A limit \in 1..MaxLimit :
          ManualSendReviewRequestsStart(limit, TRUE)
            => OldestEligible(disp'["manual"].selected, orders, limit)
     /\ \A r \in {"sched", "manual"} :
          (disp[r].pc = "loop" /\ disp'[r].pc = "loop")
            => /\ disp'[r].selected = disp[r].selected
               /\ disp'[r].i \in {disp[r].i, disp[r].i + 1}
    ]_vars

\* a manual batch has started that took the older of two pending orders,
\* which was stored after the one left out
C24_OlderOrderStoredLater ==
  /\ disp["manual"].pc = "loop"
  /\ disp["manual"].i = 0
  /\ Len(disp["manual"].selected) = 1
  /\ \E k \in PendingKeys(orders) :
       /\ k < disp["manual"].selected[1]
       /\ orders[k].orderDate > orders[disp["manual"].selected[1]].orderDate

(***************************************************************************)
(* Properties of the template-capable gateway (SpecRetry).                 *)
(***************************************************************************)
\* this step is the iteration of retryFailedNotifications in which the
\* outside world answered sendReviewRequest with env and the updates went db
RetryStepWith(env, db) ==
  /\ disp["retry"].pc = "loop"
  /\ disp["retry"].i < Len(disp["retry"].selected)
  /\ LET order == orders[AttemptKey("retry")]
         send  == CloudSendReviewRequest(order, isInitialized, allowedPhones, env)
     IN  /\ Iteration("retry", send, RetryMarkSent(order, now),
                      RetryMarkFailed(order, ErrorMessage(send)), db)
         /\ isInitialized' = send.initialized

C26_ReadsDegradeToEmpty ==
  (statsRead.pc = "done" /\ statsRead.failAt # 0)
    => /\ statsRead.result.error = NULL
       /\ statsRead.result.count = 0
       /\ statsRead.result.counts = ZeroCounts
       /\ statsRead.result.rows = << >>

(***************************************************************************)
(* Properties of the stored orders (SpecUpdate).                           *)
(***************************************************************************)
\* C27: the notificationStatus of every stored order is one of pending,
\* sent, delivered, read, failed
C27_StatusInEnumeration ==
  \A k \in 1..Len(orders) :
    orders[k].notificationStatus \in
      {"pending", "sent", "delivered", "read", "failed"}

(***************************************************************************)
(* Properties of ingestion next to dispatch (SpecInterleave).              *)
(***************************************************************************)
\* C28: a step of processOrders leaves every stored order as it was, in
\* every field: it can only add a row
C28_IngestionKeepsExistingOrders ==
  [][(\E r \in IngRuns : ing'[r] # ing[r])
       => /\ Len(orders') >= Len(orders)
          /\ \A k \in 1..Len(orders) : orders'[k] = orders[k]
    ]_vars

\* the insert of an ingestion run was refused for the one stored order,
\* which a dispatch run, still in its loop, had marked failed in between
C28_RefusedInsertDuringDispatch ==
  /\ ing["cron"].pc = "loop"
  /\ ing["cron"].errorLogged
  /\ Len(orders) = 1
  /\ orders[1].notificationStatus = "failed"
  /\ orders[1].notificationError # NULL
  /\ disp["sched"].pc = "loop"
  /\ disp["sched"].i = 1

(***************************************************************************)
(* Properties of overlapping dispatch runs (SpecOverlap).                  *)
(***************************************************************************)
\* the order is eligible for a batch
Eligible(row) ==
  row.orderStatus = "completed" /\ row.notificationStatus = "pending"

\* C29: nothing keeps a scheduled tick from starting while a manual dispatch
\* is in its loop; the tick selects the pending orders the manual run has
\* selected and not yet handled, and an iteration of either run sends for
\* the order it selected whatever the stored status has become, so the
\* gateway can accept two messages for one order
C29_NoMutualExclusion ==
  [][/\ (/\ disp["manual"].pc = "loop"
         /\ disp["sched"].pc = "idle"
         /\ opsStarted < MaxOps)
          => ENABLED SendReviewRequestsStart("sched", TRUE)
     /\ (/\ disp["manual"].pc = "loop"
         /\ SendReviewRequestsStart("sched", TRUE))
          => \A n \in (disp["manual"].i + 1)..Len(disp["manual"].selected) :
               Eligible(orders[disp["manual"].selected[n]])
                 => \E m \in 1..Len(disp'["sched"].selected) :
                      disp'["sched"].selected[m] = disp["manual"].selected[n]
     /\ \A r \in {"sched", "manual"} :
          Attempted(r) =>
            LET before == orders[AttemptKey(r)]
                send   == LegacySendReviewRequest(before, isWhatsAppVerified)
            IN  /\ disp'[r].posted = send.posted
                /\ gateway'[before.kaspiOrderId] =
                     Min(gateway[before.kaspiOrderId] + send.accepted, MaxSends)
    ]_vars

\* the scheduled and the manual run selected the same order, both sent for
\* it with success, and the gateway accepted two messages for it
C29_OrderSentTwice ==
  /\ disp["sched"].pc = "loop" /\ disp["manual"].pc = "loop"
  /\ disp["sched"].i = 1 /\ disp["manual"].i = 1
  /\ disp["sched"].selected[1] = disp["manual"].selected[1]
  /\ disp["sched"].outcome = "success" /\ disp["manual"].outcome = "success"
  /\ gateway[orders[disp["sched"].selected[1]].kaspiOrderId] = 2

(***************************************************************************)
(* Properties of the fetch-orders handler (SpecEntry).                     *)
(***************************************************************************)
\* C34: a fetch-orders request whose dates are invalid, whose start is not
\* before its end or whose span exceeds maxDays days is answered with an
\* error, and serving it calls neither fetchNewOrders nor processOrders and
\* leaves the table as it is
C34_BadRangeRejected ==
  [][(/\ endpoint' # endpoint
      /\ \/ endpoint'.fromDate = InvalidDate \/ endpoint'.toDate = InvalidDate
         \/ endpoint'.fromDate >= endpoint'.toDate
         \/ endpoint'.toDate - endpoint'.fromDate > maxDays * oneDay)
       => /\ endpoint'.error # NULL
          /\ endpoint'.calls = << >>
          /\ UNCHANGED <<fetch, ing, orders>>
    ]_vars

(***************************************************************************)
(* Properties of isPhoneAllowed (SpecAllow).                               *)
(***************************************************************************)
\* the digits of a phone number, in their order
RECURSIVE OnlyDigitsOf(_)
OnlyDigitsOf(phoneNumber) ==
  IF phoneNumber = << >>
  THEN << >>
  ELSE (IF Head(phoneNumber) \in Digits THEN <<Head(phoneNumber)>> ELSE << >>)
         \o OnlyDigitsOf(Tail(phoneNumber))

\* C35: isPhoneAllowed returns true exactly when the lookup did not fail and
\* the table holds an active record whose number is the digits of the given
\* phone; for an inactive record, no record or a failed lookup it returns
\* false
C35_AllowedOnlyIfActiveRecord ==
  [][allowCheck' # allowCheck
       => (allowCheck'.result
             <=> /\ allowCheck'.lookupOk
                 /\ \E rec \in allowedPhones :
                      /\ rec.isActive
                      /\ rec.phoneNumber = OnlyDigitsOf(allowCheck'.phoneNumber))
    ]_vars

\* the phone +71 was checked while its record 71 was inactive, and was not
\* allowed
C35_InactiveRecordRefused ==
  /\ allowCheck.called
  /\ allowCheck.phoneNumber = <<"+", "7", "1">>
  /\ allowCheck.lookupOk
  /\ ~allowCheck.result
  /\ [phoneNumber |-> <<"7", "1">>, isActive |-> FALSE] \in allowedPhones

(***************************************************************************)
(* Properties of repeated dispatch over a backlog (SpecBacklog).           *)
(***************************************************************************)
\* C37: while scheduled ticks keep coming inside the window and the updates
\* succeed, every stored order that is completed and pending becomes sent or
\* failed, also when more orders are pending than one batch selects and the
\* older ones fail to send: from some moment on no stored order is
\* completed and pending
C37_PendingEventuallyLeaves ==
  <>[](\A k \in 1..Len(orders) :
         Eligible(orders[k]) => orders[k].notificationStatus \in {"sent", "failed"})

\* the orders of a full batch failed to send and the order after them, left
\* for the next batch, was sent
C37_YoungerSentAfterFailedBatch ==
  /\ Len(orders) = BacklogSize
  /\ \A k \in 1..schedLimit : orders[k].notificationStatus = "failed"
  /\ orders[BacklogSize].notificationStatus = "sent"

\* C39: when dispatch operations do not overlap, an iteration of a scheduled
\* batch, a manual batch or a retry never handles an order that is in sent,
\* delivered or read status, and the gateway accepts a message only for an
\* order it has accepted none for
C39_AtMostOneSuccessfulSend ==
  [][\A r \in {"sched", "manual", "retry"} :
       Attempted(r) =>
         LET row == orders[AttemptKey(r)]
         IN  /\ row.notificationStatus \notin {"sent", "delivered", "read"}
             /\ gateway'[row.kaspiOrderId] > gateway[row.kaspiOrderId]
                  => gateway[row.kaspiOrderId] = 0]_vars

\* C40: a row that processOrders adds to the table has notificationStatus
\* pending, orderStatus completed, no notificationSentAt and no
\* notificationError, and satisfies the where clause of the next batch
C40_CreatedOrderIsPending ==
  [][Len(orders') > Len(orders) =>
       LET row == orders'[Len(orders')]
       IN  /\ Len(orders') = Len(orders) + 1
           /\ row.notificationStatus = "pending"
           /\ row.orderStatus = "completed"
           /\ row.notificationSentAt = NullDate
           /\ row.notificationError = NULL
           /\ Len(orders') \in PendingKeys(orders')]_vars

\* the one order of the table was created by the ingestion run and the
\* scheduled batch that started afterwards selected it
C40_CreatedOrderSelected ==
  /\ ing["cron"].saved = 1
  /\ Len(orders) = 1
  /\ Eligible(orders[1])
  /\ disp["sched"].pc = "loop"
  /\ disp["sched"].i = 0
  /\ disp["sched"].selected = <<1>>

(***************************************************************************)
(* Properties of repeated retries (SpecStarve).                            *)
(***************************************************************************)
\* the latest iteration of retryFailedNotifications handled the order at key
RetryAttempted(key) ==
  /\ disp["retry"].pc = "loop"
  /\ disp["retry"].i >= 1
  /\ disp["retry"].selected[disp["retry"].i] = key

\* C38: under repeated retryFailed calls every order in failed status is
\* eventually attempted again by a retry, also when more than 20 orders
\* keep failing
C38_FailedEventuallyRetried ==
  \A key \in 1..BacklogSize :
    (key <= Len(orders) /\ orders[key].notificationStatus = "failed")
      ~> RetryAttempted(key)
====
